---- MODULE Spec2Model ----
(***************************************************************************)
(* Model of the image-analysis workflow of back/workflow.py and            *)
(* back/nodes.py: the stage functions, the router should_search and the    *)
(* walk of the graph that get_workflow builds.                             *)
(*                                                                         *)
(* Python strings are sequences of one-character strings, so that strip,   *)
(* upper, split, startswith, replace and the substring test are computed   *)
(* as the code computes them.  A dict is a function whose DOMAIN is its    *)
(* key set.                                                                *)
(***************************************************************************)
EXTENDS Integers, Sequences, FiniteSets, TLC

(***************************************************************************)
(* String primitives (Python str methods used by the stage functions).     *)
(***************************************************************************)

\* the ASCII characters str.strip() removes
Whitespace == {" ", "\t", "\n", "\r", "\f"}

LowerLetters == <<"a","b","c","d","e","f","g","h","i","j","k","l","m",
                  "n","o","p","q","r","s","t","u","v","w","x","y","z">>

UpperLetters == <<"A","B","C","D","E","F","G","H","I","J","K","L","M",
                  "N","O","P","Q","R","S","T","U","V","W","X","Y","Z">>

\* str.upper() on one character
UpperChar(c) ==
    IF \E i \in 1..26 : LowerLetters[i] = c
    THEN UpperLetters[CHOOSE i \in 1..26 : LowerLetters[i] = c]
    ELSE c

\* s.upper()
StrUpper(s) == [i \in 1..Len(s) |-> UpperChar(s[i])]

RECURSIVE LStrip(_)
\* s.lstrip()
LStrip(s) ==
    IF s # <<>> /\ Head(s) \in Whitespace THEN LStrip(Tail(s)) ELSE s

RECURSIVE RStrip(_)
\* s.rstrip()
RStrip(s) ==
    IF s # <<>> /\ s[Len(s)] \in Whitespace
    THEN RStrip(SubSeq(s, 1, Len(s) - 1))
    ELSE s

\* s.strip()
StrStrip(s) == RStrip(LStrip(s))

\* s.startswith(p)
StartsWith(s, p) == Len(s) >= Len(p) /\ SubSeq(s, 1, Len(p)) = p

\* p in s
Contains(s, p) ==
    \E i \in 0..(Len(s) - Len(p)) : SubSeq(s, i + 1, i + Len(p)) = p

RECURSIVE StrRemove(_, _)
\* s.replace(p, ''): every non-overlapping occurrence of p, left to right
StrRemove(s, p) ==
    LET at == { k \in 1..(Len(s) - Len(p) + 1) :
                   SubSeq(s, k, k + Len(p) - 1) = p }
    IN  IF at = {} THEN s
        ELSE LET i == CHOOSE k \in at : \A j \in at : k <= j
             IN  SubSeq(s, 1, i - 1)
                     \o StrRemove(SubSeq(s, i + Len(p), Len(s)), p)

RECURSIVE StrSplit(_, _)
\* s.split(c) for a one-character separator c: a sequence of strings
StrSplit(s, c) ==
    IF \E i \in 1..Len(s) : s[i] = c
    THEN LET i == CHOOSE k \in 1..Len(s) :
                      s[k] = c /\ \A j \in 1..(k - 1) : s[j] # c
         IN  <<SubSeq(s, 1, i - 1)>> \o StrSplit(SubSeq(s, i + 1, Len(s)), c)
    ELSE <<s>>

\* s[:n]
StrPrefix(s, n) == SubSeq(s, 1, IF Len(s) < n THEN Len(s) ELSE n)

(***************************************************************************)
(* String constants of the source.                                         *)
(***************************************************************************)

\* c repeated n times
Rep(c, n) == [i \in 1..n |-> c]

EMPTY == <<>>
NA == <<"N", "/", "A">>
ARTICLE == <<"A", "R", "T", "I", "C", "L", "E">>
FACTS == <<"F", "A", "C", "T", "S">>
MEME == <<"M", "E", "M", "E">>
SOCIAL_MEDIA == <<"S", "O", "C", "I", "A", "L", "_", "M", "E", "D", "I", "A">>
OTHER_TYPE == <<"O", "T", "H", "E", "R">>
ERROR == <<"E", "R", "R", "O", "R">>
POSITIVE == <<"P", "O", "S", "I", "T", "I", "V", "E">>
NEGATIVE == <<"N", "E", "G", "A", "T", "I", "V", "E">>
NEUTRAL == <<"N", "E", "U", "T", "R", "A", "L">>
YES == <<"Y", "E", "S">>
NO == <<"N", "O">>
OcrPrefix == <<"O", "C", "R", ":">>
ContentTypePrefix == <<"C", "O", "N", "T", "E", "N", "T", "_", "T", "Y", "P", "E", ":">>
RegionMarker == <<"u", "n", "s", "u", "p", "p", "o", "r", "t", "e", "d", "_", "c", "o", "u", "n", "t", "r", "y", "_", "r", "e", "g", "i", "o", "n", "_", "t", "e", "r", "r", "i", "t", "o", "r", "y">>
Marker403 == <<"4", "0", "3">>
RegionBlockedText == <<"E", "r", "r", "o", "r", ":", " ", "O", "p", "e", "n", "A", "I", " ", "A", "P", "I", " ", "b", "l", "o", "c", "k", "e", "d", " ", "i", "n", " ", "y", "o", "u", "r", " ", "r", "e", "g", "i", "o", "n">>
UnknownMeme == <<"U", "n", "k", "n", "o", "w", "n", " ", "M", "e", "m", "e">>
AnalysisFailed == <<"A", "n", "a", "l", "y", "s", "i", "s", " ", "F", "a", "i", "l", "e", "d">>
UnknownUser == <<"U", "n", "k", "n", "o", "w", "n", " ", "U", "s", "e", "r">>
UNKNOWN == <<"U", "N", "K", "N", "O", "W", "N">>
TWITTER == <<"T", "W", "I", "T", "T", "E", "R">>
SearchFailedPrefix == <<"S", "e", "a", "r", "c", "h", " ", "f", "a", "i", "l", "e", "d", ":", " ">>
NoSearchPrefix == <<"N", "o", " ", "s", "e", "a", "r", "c", "h", " ", "p", "e", "r", "f", "o", "r", "m", "e", "d", " ", "-", " ">>
NoSearchSuffix == <<" ", "c", "o", "n", "t", "e", "n", "t", " ", "d", "o", "e", "s", "n", "'", "t", " ", "r", "e", "q", "u", "i", "r", "e", " ", "f", "a", "c", "t", "-", "c", "h", "e", "c", "k", "i", "n", "g">>

(***************************************************************************)
(* Dicts.                                                                  *)
(***************************************************************************)

\* {}
EmptyDict == <<>>

\* d.get(k, default)
Get(d, k, default) == IF k \in DOMAIN d THEN d[k] ELSE default

\* {**d, k: v}
With(d, k, v) == [x \in (DOMAIN d) \cup {k} |-> IF x = k THEN v ELSE d[x]]

\* the graph engine writes a node's return value over the record, key by key
Merge(d, update) ==
    [x \in (DOMAIN d) \cup (DOMAIN update) |->
        IF x \in DOMAIN update THEN update[x] ELSE d[x]]

\* the keys of GraphState
GraphState ==
    {"ocr_result", "content_type", "search_results", "meme_name",
     "explain_humor", "social_media_platform", "poster_name", "sentiment",
     "is_political", "is_outrage", "cb"}

(***************************************************************************)
(* Outcomes of a call to a capability (llm.invoke, search.run): an answer  *)
(* or an exception with a message.  A node returns a dict or raises.       *)
(***************************************************************************)

Answer(text) == [ok |-> TRUE, content |-> text, msg |-> <<>>]

Failure(message) == [ok |-> FALSE, content |-> <<>>, msg |-> message]

NoCall == [ok |-> FALSE, content |-> <<>>, msg |-> <<>>]

Return(d) == [raised |-> FALSE, value |-> d, msg |-> <<>>]

Raise(message) == [raised |-> TRUE, value |-> EmptyDict, msg |-> message]

(***************************************************************************)
(* Inputs: what the capabilities may answer.                               *)
(***************************************************************************)

Images == { <<"i", "m", "g", "1">>, <<"i", "m", "g", "2">> }

\* answers of the vision call of the entry stage
OcrResponses ==
    { <<"O", "C", "R", ":", " ", "h", "i", "\n", "C", "O", "N", "T", "E", "N", "T", "_", "T", "Y", "P", "E", ":", " ", "M", "E", "M", "E">>,
      <<"O", "C", "R", ":", " ", "h", "i", "\n", "C", "O", "N", "T", "E", "N", "T", "_", "T", "Y", "P", "E", ":", " ", "A", "R", "T", "I", "C", "L", "E">>,
      <<"O", "C", "R", ":", " ", "h", "i", "\n", "C", "O", "N", "T", "E", "N", "T", "_", "T", "Y", "P", "E", ":", " ", "F", "A", "C", "T", "S">>,
      <<"O", "C", "R", ":", " ", "h", "i", "\n", "C", "O", "N", "T", "E", "N", "T", "_", "T", "Y", "P", "E", ":", " ", "S", "O", "C", "I", "A", "L", "_", "M", "E", "D", "I", "A">>,
      <<"O", "C", "R", ":", " ", "h", "i", "\n", "C", "O", "N", "T", "E", "N", "T", "_", "T", "Y", "P", "E", ":", " ", "O", "T", "H", "E", "R">>,
      <<"O", "C", "R", ":", " ", "\n", "C", "O", "N", "T", "E", "N", "T", "_", "T", "Y", "P", "E", ":", " ", "M", "E", "M", "E">>,
      <<"O", "C", "R", ":", "\n", "C", "O", "N", "T", "E", "N", "T", "_", "T", "Y", "P", "E", ":", " ", "A", "R", "T", "I", "C", "L", "E">>,
      <<"O", "C", "R", ":", " ", " ", "\n", "C", "O", "N", "T", "E", "N", "T", "_", "T", "Y", "P", "E", ":", " ", "S", "O", "C", "I", "A", "L", "_", "M", "E", "D", "I", "A">>,
      <<"O", "C", "R", ":", " ", "\t", "\n", "C", "O", "N", "T", "E", "N", "T", "_", "T", "Y", "P", "E", ":", " ", "O", "T", "H", "E", "R">>,
      <<"C", "O", "N", "T", "E", "N", "T", "_", "T", "Y", "P", "E", ":", " ", "F", "A", "C", "T", "S">>,
      <<"O", "C", "R", ":", " ", "h", "i", "\n", "C", "O", "N", "T", "E", "N", "T", "_", "T", "Y", "P", "E", ":", " ", "m", "e", "m", "e">>,
      <<"O", "C", "R", ":", " ", "h", "i", "\n", "C", "O", "N", "T", "E", "N", "T", "_", "T", "Y", "P", "E", ":", " ", "[", "M", "E", "M", "E", "]">>,
      <<"O", "C", "R", ":", " ", "h", "i">>,
      <<"H", "e", "r", "e", " ", "i", "t", " ", "i", "s", ":", "\n", "O", "C", "R", ":", " ", "h", "i", "\n", "(", "t", "w", "o", " ", "w", "o", "r", "d", "s", ")", "\n", "C", "O", "N", "T", "E", "N", "T", "_", "T", "Y", "P", "E", ":", " ", "M", "E", "M", "E", "\n", "D", "o", "n", "e", ".">>,
      <<"O", "C", "R", ":", " ", "s", "e", "e", " ", "O", "C", "R", ":", " ", "x", "\n", "C", "O", "N", "T", "E", "N", "T", "_", "T", "Y", "P", "E", ":", " ", "M", "E", "M", "E">>,
      <<"h", "i", " ", "t", "h", "e", "r", "e">>,
      <<>> }

\* token counts the usage callback reports for the entry call
EntryUsages ==
    { [prompt_tokens |-> 10, completion_tokens |-> 2, total_tokens |-> 12,
       total_cost |-> 3],
      [prompt_tokens |-> 10, completion_tokens |-> 0, total_tokens |-> 10,
       total_cost |-> 2] }

\* token counts the capability reports for a later completion call
CompletionUsages ==
    { [prompt_tokens |-> 4, completion_tokens |-> 1, total_tokens |-> 5,
       total_cost |-> 1],
      [prompt_tokens |-> 4, completion_tokens |-> 3, total_tokens |-> 7,
       total_cost |-> 2] }

\* messages of the exceptions a completion call may raise
LlmErrors ==
    { <<"E", "r", "r", "o", "r", " ", "c", "o", "d", "e", ":", " ", "4", "0", "3", " ", "-", " ", "u", "n", "s", "u", "p", "p", "o", "r", "t", "e", "d", "_", "c", "o", "u", "n", "t", "r", "y", "_", "r", "e", "g", "i", "o", "n", "_", "t", "e", "r", "r", "i", "t", "o", "r", "y">>,
      <<"E", "r", "r", "o", "r", " ", "c", "o", "d", "e", ":", " ", "4", "0", "3">>,
      <<"R", "e", "q", "u", "e", "s", "t", " ", "t", "i", "m", "e", "d", " ", "o", "u", "t", ".">> }

SentimentAnswers ==
    { <<"P", "O", "S", "I", "T", "I", "V", "E">>, <<" ", "n", "e", "g", "a", "t", "i", "v", "e", "\n">>, <<"N", "E", "U", "T", "R", "A", "L">>, <<"h", "a", "p", "p", "y">>, <<>> }

PoliticalAnswers == { <<"Y", "E", "S">>, <<"n", "o">>, <<"m", "a", "y", "b", "e">> }

OutrageAnswers == { <<"Y", "E", "S">>, <<"N", "o", " ">>, <<>> }

\* answers of the meme-name call: a name, one to trim, none, and names of
\* 100 and 101 characters
MemeNameAnswers ==
    { <<"D", "r", "a", "k", "e", " ", "P", "o", "i", "n", "t", "i", "n", "g">>, <<" ", "C", "u", "s", "t", "o", "m", " ", "M", "e", "m", "e", " ">>, <<>>,
      Rep("m", 100), <<" ">> \o Rep("m", 100) \o <<"\n">>, Rep("m", 101) }

PlatformAnswers == { <<"R", "E", "D", "D", "I", "T">>, <<"x">>, <<"t", "w", "i", "t", "t", "e", "r", "\n">>, <<"M", "a", "s", "t", "o", "d", "o", "n">> }

\* answers of the poster call: names with a leading marker, a marker alone,
\* a name with a marker inside, none
PosterAnswers ==
    { <<"@", "n", "a", "s", "a">>, <<"u", "/", "b", "o", "b">>, <<>>,
      <<"@">>, <<"j", "@", "n", "e">> }

SearchAnswers == { <<"r", "e", "s", "u", "l", "t">>, <<>> }

SearchErrors == { <<"r", "a", "t", "e", " ", "l", "i", "m", "i", "t">> }

Outcomes(answers, errors) ==
    { Answer(a) : a \in answers } \cup { Failure(m) : m \in errors }

(***************************************************************************)
(* The stage functions of nodes.py.  Each takes the record and the outcome *)
(* of the capability call it makes (NoCall when it makes none) and gives   *)
(* the dict it returns or the exception it raises.                         *)
(***************************************************************************)

\* RegionBlocked testing the region marker alone
RegionBlocked_marker_only(message) == Contains(message, RegionMarker)

\* RegionBlocked containing every failure
RegionBlocked_any(message) == TRUE

\* the except clause of ocr_node contains the failure iff this holds
RegionBlocked(message) ==
    Contains(message, RegionMarker) \/ Contains(message, Marker403)

RECURSIVE ParseLines(_, _, _)
\* the loop over the lines of the entry response; the response content is
\* text, so split and startswith do not raise and the except clause after
\* the loop is not entered
ParseLines(lines, ocr_result, content_type) ==
    IF lines = <<>>
    THEN [ocr_result |-> ocr_result, content_type |-> content_type]
    ELSE LET line == Head(lines)
         IN  IF StartsWith(line, OcrPrefix)
             THEN ParseLines(Tail(lines),
                             StrStrip(StrRemove(line, OcrPrefix)),
                             content_type)
             ELSE IF StartsWith(line, ContentTypePrefix)
             THEN ParseLines(Tail(lines), ocr_result,
                             StrStrip(StrRemove(line, ContentTypePrefix)))
             ELSE ParseLines(Tail(lines), ocr_result, content_type)

\* the record the entry stage returns: every key, the later ones empty
OcrRecord(ocr_result, content_type, cb) ==
    [ocr_result |-> ocr_result, content_type |-> content_type,
     search_results |-> EMPTY, meme_name |-> EMPTY, explain_humor |-> EMPTY,
     social_media_platform |-> EMPTY, poster_name |-> EMPTY,
     sentiment |-> EMPTY, is_political |-> EMPTY, is_outrage |-> EMPTY,
     cb |-> cb]

ocr_node(st, out, usage) ==
    IF ~out.ok
    THEN IF RegionBlocked(out.msg)
         THEN Return(OcrRecord(RegionBlockedText, ERROR, [error |-> out.msg]))
         ELSE Raise(out.msg)
    ELSE LET p == ParseLines(StrSplit(out.content, "\n"), EMPTY, OTHER_TYPE)
         IN  Return(OcrRecord(p.ocr_result, p.content_type, usage))

QueryMaxLen == 200

QueryCutLen == 100

\* search_query that cuts at the first period whatever the length
search_query_cuts_any_length(ocr_result) ==
    LET q == StrStrip(StrPrefix(ocr_result, QueryMaxLen))
        sentences == StrSplit(q, ".")
    IN  IF Len(sentences) > 1
        THEN sentences[1] \o <<".">>
        ELSE q

\* search_query that never cuts at a period
search_query_never_cuts(ocr_result) ==
    StrStrip(StrPrefix(ocr_result, QueryMaxLen))

\* search_query passing the whole text, trimmed
search_query_whole_text(ocr_result) == StrStrip(ocr_result)

\* the query search_node builds from the extracted text
search_query(ocr_result) ==
    LET q == StrStrip(StrPrefix(ocr_result, QueryMaxLen))
        sentences == StrSplit(q, ".")
    IN  IF Len(q) > QueryCutLen /\ Len(sentences) > 1
        THEN sentences[1] \o <<".">>
        ELSE q

\* search_invokes without the test of the category
search_invokes_text_only(st) ==
    StrStrip(Get(st, "ocr_result", EMPTY)) # <<>>

\* search_node calls the search capability iff this holds
search_invokes(st) ==
    /\ Get(st, "content_type", OTHER_TYPE) \in {ARTICLE, FACTS}
    /\ StrStrip(Get(st, "ocr_result", EMPTY)) # <<>>

\* search_node that lets the failure of the search capability out
search_node_raises(st, out) ==
    IF search_invokes(st)
    THEN IF out.ok
         THEN Return(With(st, "search_results", out.content))
         ELSE Raise(out.msg)
    ELSE Return(With(st, "search_results",
                     NoSearchPrefix \o Get(st, "content_type", OTHER_TYPE)
                         \o NoSearchSuffix))

search_node(st, out) ==
    IF search_invokes(st)
    THEN IF out.ok
         THEN Return(With(st, "search_results", out.content))
         ELSE Return(With(st, "search_results", SearchFailedPrefix \o out.msg))
    ELSE Return(With(st, "search_results",
                     NoSearchPrefix \o Get(st, "content_type", OTHER_TYPE)
                         \o NoSearchSuffix))

NameMaxLen == 100

\* meme_name_invokes without the test of the text
meme_name_invokes_any_text(st) == Get(st, "content_type", EMPTY) = MEME

\* meme_name_analysis_node calls the completion capability iff this holds
meme_name_invokes(st) ==
    ~ (Get(st, "content_type", EMPTY) # MEME
          \/ StrStrip(Get(st, "ocr_result", EMPTY)) = <<>>)

\* meme_name_analysis_node whose skip also resets the usage
meme_name_analysis_node_resets_usage(st, out) ==
    IF ~meme_name_invokes(st)
    THEN Return(With(With(st, "meme_name", NA), "cb", EmptyDict))
    ELSE IF out.ok
    THEN LET meme_name == StrStrip(out.content)
         IN  IF meme_name = <<>> \/ Len(meme_name) > NameMaxLen
             THEN Return(With(st, "meme_name", UnknownMeme))
             ELSE Return(With(st, "meme_name", meme_name))
    ELSE Return(With(st, "meme_name", AnalysisFailed))

\* meme_name_analysis_node that stores the trimmed answer whatever its length
meme_name_analysis_node_any_length(st, out) ==
    IF ~meme_name_invokes(st)
    THEN Return(With(st, "meme_name", NA))
    ELSE IF out.ok
    THEN LET meme_name == StrStrip(out.content)
         IN  IF meme_name = <<>>
             THEN Return(With(st, "meme_name", UnknownMeme))
             ELSE Return(With(st, "meme_name", meme_name))
    ELSE Return(With(st, "meme_name", AnalysisFailed))

meme_name_analysis_node(st, out) ==
    IF ~meme_name_invokes(st)
    THEN Return(With(st, "meme_name", NA))
    ELSE IF out.ok
    THEN LET meme_name == StrStrip(out.content)
         IN  IF meme_name = <<>> \/ Len(meme_name) > NameMaxLen
             THEN Return(With(st, "meme_name", UnknownMeme))
             ELSE Return(With(st, "meme_name", meme_name))
    ELSE Return(With(st, "meme_name", AnalysisFailed))

\* explain_humor_analysis_node goes past its skip test iff this holds
explain_humor_applies(st) ==
    ~ (Get(st, "content_type", EMPTY) # MEME
          \/ StrStrip(Get(st, "ocr_result", EMPTY)) = <<>>)

\* the message of the NameError for the names LLM_API_KEY and MODEL, which
\* nodes.py neither defines nor imports
NameErrorMessage == <<"n", "a", "m", "e", " ", "'", "L", "L", "M", "_", "A", "P", "I", "_", "K", "E", "Y", "'", " ", "i", "s", " ", "n", "o", "t", " ", "d", "e", "f", "i", "n", "e", "d">>

\* past the skip test the node builds its client from the undefined names,
\* outside its try block, so it raises before it can call the capability
explain_humor_analysis_node(st, out) ==
    IF ~explain_humor_applies(st)
    THEN Return(With(st, "explain_humor", NA))
    ELSE Raise(NameErrorMessage)

valid_platforms ==
    { <<"T", "W", "I", "T", "T", "E", "R">>, <<"F", "A", "C", "E", "B", "O", "O", "K">>, <<"I", "N", "S", "T", "A", "G", "R", "A", "M">>, <<"R", "E", "D", "D", "I", "T">>, <<"T", "I", "K", "T", "O", "K">>,
      <<"L", "I", "N", "K", "E", "D", "I", "N">>, <<"D", "I", "S", "C", "O", "R", "D">>, <<"S", "N", "A", "P", "C", "H", "A", "T">>, <<"Y", "O", "U", "T", "U", "B", "E">>, <<"T", "E", "L", "E", "G", "R", "A", "M">>,
      <<"U", "N", "K", "N", "O", "W", "N">> }

\* social_media_detection_node calls the completion capability iff this holds
social_media_invokes(st) ==
    ~ (Get(st, "content_type", EMPTY) # SOCIAL_MEDIA
          \/ StrStrip(Get(st, "ocr_result", EMPTY)) = <<>>)

\* NormalizePlatform without the membership test
NormalizePlatform_unvalidated(content) == StrUpper(StrStrip(content))

\* the validation of the platform answer, in the order of the code
NormalizePlatform(content) ==
    LET platform == StrUpper(StrStrip(content))
        validated == IF platform \notin valid_platforms
                     THEN UNKNOWN ELSE platform
    IN  IF validated = <<"X">> THEN TWITTER ELSE validated

social_media_detection_node(st, out) ==
    IF ~social_media_invokes(st)
    THEN Return(With(st, "social_media_platform", NA))
    ELSE IF out.ok
    THEN Return(With(st, "social_media_platform",
                     NormalizePlatform(out.content)))
    ELSE Return(With(st, "social_media_platform", UNKNOWN))

\* recognise_poster_node calls the completion capability iff this holds
recognise_poster_invokes(st) ==
    ~ (Get(st, "content_type", EMPTY) # SOCIAL_MEDIA
          \/ StrStrip(Get(st, "ocr_result", EMPTY)) = <<>>)

\* the clean-up of the poster answer
CleanPoster(content) ==
    LET poster == StrStrip(content)
        checked == IF poster = <<>> \/ Len(poster) > NameMaxLen
                   THEN UnknownUser ELSE poster
    IN  StrStrip(StrRemove(StrRemove(checked, <<"@">>), <<"u", "/">>))

recognise_poster_node(st, out) ==
    IF ~recognise_poster_invokes(st)
    THEN Return(With(st, "poster_name", NA))
    ELSE IF out.ok
    THEN Return(With(st, "poster_name", CleanPoster(out.content)))
    ELSE Return(With(st, "poster_name", UnknownUser))

\* tail_invokes without the blank-text test
tail_invokes_any_text(st) == TRUE

\* tail_invokes that also looks at the sentiment already in the record
tail_invokes_unless_neutral(st) ==
    /\ StrStrip(Get(st, "ocr_result", EMPTY)) # <<>>
    /\ Get(st, "sentiment", EMPTY) # NEUTRAL

\* a tail stage calls the completion capability iff the text is not blank
tail_invokes(st) == StrStrip(Get(st, "ocr_result", EMPTY)) # <<>>

\* Validate without the membership test
Validate_unchecked(content, allowed, default) == StrUpper(StrStrip(content))

\* the answer of a tail stage, trimmed and upper-cased, or the default
Validate(content, allowed, default) ==
    LET v == StrUpper(StrStrip(content))
    IN  IF v \notin allowed THEN default ELSE v

\* sentiment_analysis_node marking the record ERROR when its call fails
sentiment_analysis_node_marks_error(st, out) ==
    IF ~tail_invokes(st)
    THEN Return(With(st, "sentiment", NEUTRAL))
    ELSE IF out.ok
    THEN Return(With(st, "sentiment",
                     Validate(out.content, {POSITIVE, NEGATIVE, NEUTRAL},
                              NEUTRAL)))
    ELSE Return(With(With(st, "sentiment", NEUTRAL), "content_type", ERROR))

sentiment_analysis_node(st, out) ==
    IF ~tail_invokes(st)
    THEN Return(With(st, "sentiment", NEUTRAL))
    ELSE IF out.ok
    THEN Return(With(st, "sentiment",
                     Validate(out.content, {POSITIVE, NEGATIVE, NEUTRAL},
                              NEUTRAL)))
    ELSE Return(With(st, "sentiment", NEUTRAL))

\* political_analysis_node returning a record rebuilt from the text alone
political_analysis_node_rebuilds_record(st, out) ==
    Return(With(OcrRecord(Get(st, "ocr_result", EMPTY),
                          Get(st, "content_type", EMPTY),
                          Get(st, "cb", EmptyDict)),
                "is_political", NO))

political_analysis_node(st, out) ==
    IF ~tail_invokes(st)
    THEN Return(With(st, "is_political", NO))
    ELSE IF out.ok
    THEN Return(With(st, "is_political",
                     Validate(out.content, {YES, NO}, NO)))
    ELSE Return(With(st, "is_political", NO))

\* outrage_analysis_node that lets the failure of its call out
outrage_analysis_node_raises(st, out) ==
    IF ~tail_invokes(st)
    THEN Return(With(st, "is_outrage", NO))
    ELSE IF out.ok
    THEN Return(With(st, "is_outrage", Validate(out.content, {YES, NO}, NO)))
    ELSE Raise(out.msg)

outrage_analysis_node(st, out) ==
    IF ~tail_invokes(st)
    THEN Return(With(st, "is_outrage", NO))
    ELSE IF out.ok
    THEN Return(With(st, "is_outrage", Validate(out.content, {YES, NO}, NO)))
    ELSE Return(With(st, "is_outrage", NO))

result_node(st) == Return(st)

(***************************************************************************)
(* The router and the edges of the graph (workflow.py).                    *)
(***************************************************************************)

\* should_search whose last branch is taken for OTHER alone, the rest going
\* to the result stage
should_search_other_only(st) ==
    LET content_type == Get(st, "content_type", OTHER_TYPE)
    IN  IF content_type \in {ARTICLE, FACTS} THEN "search"
        ELSE IF content_type = MEME THEN "meme_name_analysis"
        ELSE IF content_type = SOCIAL_MEDIA THEN "social_media_detection"
        ELSE IF content_type = OTHER_TYPE THEN "sentiment_analysis"
        ELSE "result"

\* should_search sending every category but OTHER to the search stage
should_search_search_unless_other(st) ==
    LET content_type == Get(st, "content_type", OTHER_TYPE)
    IN  IF content_type # OTHER_TYPE THEN "search"
        ELSE "sentiment_analysis"

\* should_search sending MEME straight to the humor-explanation stage
should_search_meme_to_humor(st) ==
    LET content_type == Get(st, "content_type", OTHER_TYPE)
    IN  IF content_type \in {ARTICLE, FACTS} THEN "search"
        ELSE IF content_type = MEME THEN "explain_humor_analysis"
        ELSE IF content_type = SOCIAL_MEDIA THEN "social_media_detection"
        ELSE "sentiment_analysis"

should_search(st) ==
    LET content_type == Get(st, "content_type", OTHER_TYPE)
    IN  IF content_type \in {ARTICLE, FACTS} THEN "search"
        ELSE IF content_type = MEME THEN "meme_name_analysis"
        ELSE IF content_type = SOCIAL_MEDIA THEN "social_media_detection"
        ELSE "sentiment_analysis"

Stages ==
    {"ocr", "search", "meme_name_analysis", "explain_humor_analysis",
     "social_media_detection", "recognise_poster", "sentiment_analysis",
     "political_analysis", "outrage_analysis", "result"}

\* NextStage with the edge of search_node going past sentiment_analysis
NextStage_search_skips_sentiment(stage, st) ==
    CASE stage = "ocr" -> should_search(st)
      [] stage = "search" -> "political_analysis"
      [] stage = "meme_name_analysis" -> "explain_humor_analysis"
      [] stage = "explain_humor_analysis" -> "sentiment_analysis"
      [] stage = "social_media_detection" -> "recognise_poster"
      [] stage = "recognise_poster" -> "sentiment_analysis"
      [] stage = "sentiment_analysis" -> "political_analysis"
      [] stage = "political_analysis" -> "outrage_analysis"
      [] stage = "outrage_analysis" -> "result"
      [] stage = "result" -> "END"

\* NextStage with an edge from outrage_analysis back to sentiment_analysis
NextStage_outrage_loops(stage, st) ==
    CASE stage = "ocr" -> should_search(st)
      [] stage = "search" -> "sentiment_analysis"
      [] stage = "meme_name_analysis" -> "explain_humor_analysis"
      [] stage = "explain_humor_analysis" -> "sentiment_analysis"
      [] stage = "social_media_detection" -> "recognise_poster"
      [] stage = "recognise_poster" -> "sentiment_analysis"
      [] stage = "sentiment_analysis" -> "political_analysis"
      [] stage = "political_analysis" -> "outrage_analysis"
      [] stage = "outrage_analysis" -> "sentiment_analysis"
      [] stage = "result" -> "END"

\* the stage the walk goes to after `stage` has returned the record st
NextStage(stage, st) ==
    CASE stage = "ocr" -> should_search(st)
      [] stage = "search" -> "sentiment_analysis"
      [] stage = "meme_name_analysis" -> "explain_humor_analysis"
      [] stage = "explain_humor_analysis" -> "sentiment_analysis"
      [] stage = "social_media_detection" -> "recognise_poster"
      [] stage = "recognise_poster" -> "sentiment_analysis"
      [] stage = "sentiment_analysis" -> "political_analysis"
      [] stage = "political_analysis" -> "outrage_analysis"
      [] stage = "outrage_analysis" -> "result"
      [] stage = "result" -> "END"

(***************************************************************************)
(* State.  A request is one call of get_workflow(image_data) followed by   *)
(* the walk of the compiled graph from the empty record.                   *)
(***************************************************************************)

Requests == {1, 2}

VARIABLES
    pc,      \* pc[r]: the stage request r executes next; "END" once the walk
             \* has returned the record, "raised" once an exception has left
             \* it, "idle" while no workflow is built for r
    state,   \* state[r]: the record (GraphState dict) of request r
    image,   \* image[r]: the image_data bound into the ocr node of r
    exc,     \* exc[r]: the message of the exception that left the walk
    trace,   \* trace[r]: the stages executed so far, in order
    calls,   \* calls[r]: the capability calls made so far, in order
    billed,  \* billed[r]: the sum of the usage the completion capability
             \* reported for the calls of r it answered
    upload,  \* upload[r]: the file and user of the POST /analyze request r
    response \* response[r]: what the /analyze handler answered to r

vars == <<pc, state, image, exc, trace, calls, billed, upload, response>>

\* the usage of no call
\* no HTTP request: the workflow is run directly
NoUpload == [filename |-> <<>>, content_type |-> <<>>, user_email |-> <<>>]

\* the handler has not answered
NoResponse == [status |-> 0, detail |-> <<>>, body |-> EmptyDict]

ZeroUsage ==
    [prompt_tokens |-> 0, completion_tokens |-> 0, total_tokens |-> 0,
     total_cost |-> 0]

\* the field-wise sum of two usage reports
AddUsage(a, b) ==
    [prompt_tokens |-> a.prompt_tokens + b.prompt_tokens,
     completion_tokens |-> a.completion_tokens + b.completion_tokens,
     total_tokens |-> a.total_tokens + b.total_tokens,
     total_cost |-> a.total_cost + b.total_cost]

\* the capability reports `usage` for a call it answered, nothing for a call
\* that raised
Bill(r, out, usage) ==
    billed' = [billed EXCEPT ![r] = IF out.ok THEN AddUsage(@, usage) ELSE @]

\* the failures of the vision call: those of any completion call, and a
\* rate-limit failure (status 429) whose message holds the digits 403
VisionErrors ==
    LlmErrors \cup { <<"E", "r", "r", "o", "r", " ", "c", "o", "d", "e", ":", " ", "4", "2", "9", " ", "-", " ", "l", "i", "m", "i", "t", " ", "1", "4", "0", "3", "0", " ", "t", "o", "k", "e", "n", "s">> }

\* one capability call: the stage that made it, what it was given and how
\* it came out
Call(stage, arg, out) == [stage |-> stage, arg |-> arg, out |-> out]

\* Step with every capability call of the stage made a second time
Step_calls_again(r, stage, result, made) ==
    /\ trace' = [trace EXCEPT ![r] = Append(@, stage)]
    /\ calls' = [calls EXCEPT ![r] = @ \o made \o made]
    /\ IF result.raised
       THEN /\ pc' = [pc EXCEPT ![r] = "raised"]
            /\ exc' = [exc EXCEPT ![r] = result.msg]
            /\ UNCHANGED state
       ELSE /\ state' = [state EXCEPT ![r] = Merge(@, result.value)]
            /\ pc' = [pc EXCEPT ![r] = NextStage(stage, Merge(state[r], result.value))]
            /\ UNCHANGED exc
    /\ UNCHANGED <<image, upload, response>>

\* the engine runs one stage: it appends the stage to the walk, records the
\* capability calls the stage made, and either writes the returned dict into
\* the record and follows the edge, or lets the exception leave the walk
Step(r, stage, result, made) ==
    /\ trace' = [trace EXCEPT ![r] = Append(@, stage)]
    /\ calls' = [calls EXCEPT ![r] = @ \o made]
    /\ IF result.raised
       THEN /\ pc' = [pc EXCEPT ![r] = "raised"]
            /\ exc' = [exc EXCEPT ![r] = result.msg]
            /\ UNCHANGED state
       ELSE /\ state' = [state EXCEPT ![r] = Merge(@, result.value)]
            /\ pc' = [pc EXCEPT ![r] = NextStage(stage, Merge(state[r], result.value))]
            /\ UNCHANGED exc
    /\ UNCHANGED <<image, upload, response>>

\* get_workflow(image_data) for request 1; the walk starts from {}
Init ==
    /\ \E image_data \in Images :
          image = [r \in Requests |-> IF r = 1 THEN image_data ELSE <<>>]
    /\ pc = [r \in Requests |-> IF r = 1 THEN "ocr" ELSE "idle"]
    /\ state = [r \in Requests |-> EmptyDict]
    /\ exc = [r \in Requests |-> <<>>]
    /\ trace = [r \in Requests |-> <<>>]
    /\ calls = [r \in Requests |-> <<>>]
    /\ billed = [r \in Requests |-> ZeroUsage]
    /\ upload = [r \in Requests |-> NoUpload]
    /\ response = [r \in Requests |-> NoResponse]

\* image_data kept in one place for every request
image_data_shared(r) == image[1]

\* the image_data the closure of the ocr node of request r holds
image_data(r) == image[r]

ocr(r) ==
    /\ pc[r] = "ocr"
    /\ \E out \in Outcomes(OcrResponses, VisionErrors), usage \in EntryUsages :
          /\ Step(r, "ocr", ocr_node(state[r], out, usage),
                  <<Call("ocr", image_data(r), out)>>)
          /\ Bill(r, out, usage)

search(r) ==
    /\ pc[r] = "search"
    /\ UNCHANGED billed
    /\ IF search_invokes(state[r])
       THEN \E out \in Outcomes(SearchAnswers, SearchErrors) :
               Step(r, "search", search_node(state[r], out),
                    <<Call("search",
                           search_query(Get(state[r], "ocr_result", EMPTY)), out)>>)
       ELSE Step(r, "search", search_node(state[r], NoCall), <<>>)

meme_name_analysis(r) ==
    /\ pc[r] = "meme_name_analysis"
    /\ IF meme_name_invokes(state[r])
       THEN \E out \in Outcomes(MemeNameAnswers, LlmErrors),
               usage \in CompletionUsages :
               /\ Step(r, "meme_name_analysis",
                       meme_name_analysis_node(state[r], out),
                       <<Call("meme_name_analysis",
                              Get(state[r], "ocr_result", EMPTY), out)>>)
               /\ Bill(r, out, usage)
       ELSE /\ Step(r, "meme_name_analysis",
                    meme_name_analysis_node(state[r], NoCall), <<>>)
            /\ UNCHANGED billed

explain_humor_analysis(r) ==
    /\ pc[r] = "explain_humor_analysis"
    /\ UNCHANGED billed
    /\ Step(r, "explain_humor_analysis",
            explain_humor_analysis_node(state[r], NoCall), <<>>)

social_media_detection(r) ==
    /\ pc[r] = "social_media_detection"
    /\ IF social_media_invokes(state[r])
       THEN \E out \in Outcomes(PlatformAnswers, LlmErrors),
               usage \in CompletionUsages :
               /\ Step(r, "social_media_detection",
                       social_media_detection_node(state[r], out),
                       <<Call("social_media_detection",
                              Get(state[r], "ocr_result", EMPTY), out)>>)
               /\ Bill(r, out, usage)
       ELSE /\ Step(r, "social_media_detection",
                    social_media_detection_node(state[r], NoCall), <<>>)
            /\ UNCHANGED billed

recognise_poster(r) ==
    /\ pc[r] = "recognise_poster"
    /\ IF recognise_poster_invokes(state[r])
       THEN \E out \in Outcomes(PosterAnswers, LlmErrors),
               usage \in CompletionUsages :
               /\ Step(r, "recognise_poster",
                       recognise_poster_node(state[r], out),
                       <<Call("recognise_poster",
                              Get(state[r], "ocr_result", EMPTY), out)>>)
               /\ Bill(r, out, usage)
       ELSE /\ Step(r, "recognise_poster",
                    recognise_poster_node(state[r], NoCall), <<>>)
            /\ UNCHANGED billed

sentiment_analysis(r) ==
    /\ pc[r] = "sentiment_analysis"
    /\ IF tail_invokes(state[r])
       THEN \E out \in Outcomes(SentimentAnswers, LlmErrors),
               usage \in CompletionUsages :
               /\ Step(r, "sentiment_analysis",
                       sentiment_analysis_node(state[r], out),
                       <<Call("sentiment_analysis",
                              Get(state[r], "ocr_result", EMPTY), out)>>)
               /\ Bill(r, out, usage)
       ELSE /\ Step(r, "sentiment_analysis",
                    sentiment_analysis_node(state[r], NoCall), <<>>)
            /\ UNCHANGED billed

political_analysis(r) ==
    /\ pc[r] = "political_analysis"
    /\ IF tail_invokes(state[r])
       THEN \E out \in Outcomes(PoliticalAnswers, LlmErrors),
               usage \in CompletionUsages :
               /\ Step(r, "political_analysis",
                       political_analysis_node(state[r], out),
                       <<Call("political_analysis",
                              Get(state[r], "ocr_result", EMPTY), out)>>)
               /\ Bill(r, out, usage)
       ELSE /\ Step(r, "political_analysis",
                    political_analysis_node(state[r], NoCall), <<>>)
            /\ UNCHANGED billed

outrage_analysis(r) ==
    /\ pc[r] = "outrage_analysis"
    /\ IF tail_invokes(state[r])
       THEN \E out \in Outcomes(OutrageAnswers, LlmErrors),
               usage \in CompletionUsages :
               /\ Step(r, "outrage_analysis",
                       outrage_analysis_node(state[r], out),
                       <<Call("outrage_analysis",
                              Get(state[r], "ocr_result", EMPTY), out)>>)
               /\ Bill(r, out, usage)
       ELSE /\ Step(r, "outrage_analysis",
                    outrage_analysis_node(state[r], NoCall), <<>>)
            /\ UNCHANGED billed

result(r) ==
    /\ pc[r] = "result"
    /\ UNCHANGED billed
    /\ Step(r, "result", result_node(state[r]), <<>>)

Next ==
    \E r \in Requests :
        \/ ocr(r)
        \/ search(r)
        \/ meme_name_analysis(r)
        \/ explain_humor_analysis(r)
        \/ social_media_detection(r)
        \/ recognise_poster(r)
        \/ sentiment_analysis(r)
        \/ political_analysis(r)
        \/ outrage_analysis(r)
        \/ result(r)

Spec == Init /\ [][Next]_vars

(***************************************************************************)
(* The router as a pure function: should_search applied to arbitrary       *)
(* records, among them records with an unrecognized category and records   *)
(* without the content_type key.                                           *)
(***************************************************************************)

RouterCategories ==
    { ARTICLE, FACTS, MEME, SOCIAL_MEDIA, OTHER_TYPE, ERROR,
      <<"m", "e", "m", "e">>, <<"[", "M", "E", "M", "E", "]">>, <<>>, <<"M", "E", "M", "E", "/", "A", "R", "T", "I", "C", "L", "E">> }

RouterPartialRecords ==
    { [ocr_result |-> t, sentiment |-> s] :
        t \in {EMPTY, <<"h", "i">>}, s \in {EMPTY, NEUTRAL, POSITIVE} }

RouterInputs ==
    { With(d, "content_type", c) :
        d \in RouterPartialRecords, c \in RouterCategories }
    \cup RouterPartialRecords

RouterInit ==
    /\ \E d \in RouterInputs :
          state = [r \in Requests |-> IF r = 1 THEN d ELSE EmptyDict]
    /\ pc = [r \in Requests |-> IF r = 1 THEN "route" ELSE "idle"]
    /\ image = [r \in Requests |-> <<>>]
    /\ exc = [r \in Requests |-> <<>>]
    /\ trace = [r \in Requests |-> <<>>]
    /\ calls = [r \in Requests |-> <<>>]
    /\ billed = [r \in Requests |-> ZeroUsage]
    /\ upload = [r \in Requests |-> NoUpload]
    /\ response = [r \in Requests |-> NoResponse]

\* one application of the router to the record
route(r) ==
    /\ pc[r] = "route"
    /\ pc' = [pc EXCEPT ![r] = should_search(state[r])]
    /\ trace' = [trace EXCEPT ![r] = Append(@, "should_search")]
    /\ UNCHANGED <<state, image, exc, calls, billed, upload, response>>

RouterNext == \E r \in Requests : route(r)

SpecRouter == RouterInit /\ [][RouterNext]_vars

(***************************************************************************)
(* Properties.                                                             *)
(***************************************************************************)

\* the request has finished: the walk returned the record
Done(r) == pc[r] = "END"

\* the outcome of the vision call of the entry stage, once it was made
EntryOut(r) == calls[r][1].out

\* the entry stage has been executed
EntryRan(r) == trace[r] # <<>> /\ trace[r][1] = "ocr"

\* the capability calls made by the given stages
CallsOf(r, stages) == { i \in 1..Len(calls[r]) : calls[r][i].stage \in stages }

TailStages == {"sentiment_analysis", "political_analysis", "outrage_analysis"}

TailWalk ==
    <<"sentiment_analysis", "political_analysis", "outrage_analysis", "result">>

\* C1: the router gives exactly one stage name for every record: search for
\* ARTICLE and FACTS, meme_name_analysis for MEME, social_media_detection for
\* SOCIAL_MEDIA, and sentiment_analysis for every other category, for an
\* unrecognized string and for a record without the content_type key.
C1_RouterTotalMapping ==
    \A r \in Requests :
        trace[r] = <<"should_search">> =>
            LET has == "content_type" \in DOMAIN state[r]
                c == state[r]["content_type"]
            IN  /\ pc[r] \in Stages
                /\ (has /\ c \in {ARTICLE, FACTS}) => pc[r] = "search"
                /\ (has /\ c = MEME) => pc[r] = "meme_name_analysis"
                /\ (has /\ c = SOCIAL_MEDIA) => pc[r] = "social_media_detection"
                /\ (~has \/ c \notin {ARTICLE, FACTS, MEME, SOCIAL_MEDIA})
                       => pc[r] = "sentiment_analysis"

\* the router was applied to a record without the content_type key
C1_Witness ==
    \E r \in Requests :
        /\ trace[r] = <<"should_search">>
        /\ "content_type" \notin DOMAIN state[r]
        /\ pc[r] = "sentiment_analysis"

\* the walk the graph prescribes for a category
ExpectedWalk(c) ==
    IF c \in {ARTICLE, FACTS} THEN <<"ocr", "search">> \o TailWalk
    ELSE IF c = MEME
    THEN <<"ocr", "meme_name_analysis", "explain_humor_analysis">> \o TailWalk
    ELSE IF c = SOCIAL_MEDIA
    THEN <<"ocr", "social_media_detection", "recognise_poster">> \o TailWalk
    ELSE <<"ocr">> \o TailWalk

\* C2: a run that has reached the end of the graph has executed exactly the
\* stage sequence of its category: ocr, then the branch of the category (none
\* for the other categories), then sentiment_analysis, political_analysis,
\* outrage_analysis, result.
C2_WalkByCategory ==
    \A r \in Requests :
        Done(r) => trace[r] = ExpectedWalk(state[r]["content_type"])

\* a finished run of the MEME branch
C2_Witness ==
    \E r \in Requests :
        /\ Done(r)
        /\ state[r]["content_type"] = MEME
        /\ trace[r] = <<"ocr", "meme_name_analysis", "explain_humor_analysis",
                        "sentiment_analysis", "political_analysis",
                        "outrage_analysis", "result">>

\* C3: once the entry stage has returned a record no exception leaves the
\* walk: a run is in the raised state only by an exception of the entry stage.
C3_NoFailureBelowEntry ==
    \A r \in Requests :
        pc[r] = "raised" => trace[r] = <<"ocr">>

\* C4: in the record of a finished run sentiment is POSITIVE, NEGATIVE or
\* NEUTRAL and is_political and is_outrage are YES or NO.
C4_TailFieldsPopulated ==
    \A r \in Requests :
        Done(r) =>
            /\ {"sentiment", "is_political", "is_outrage"} \subseteq DOMAIN state[r]
            /\ state[r]["sentiment"] \in {POSITIVE, NEGATIVE, NEUTRAL}
            /\ state[r]["is_political"] \in {YES, NO}
            /\ state[r]["is_outrage"] \in {YES, NO}

\* a finished run whose sentiment call gave an answer outside the value set
\* and whose political call raised
C4_Witness ==
    \E r \in Requests :
        /\ Done(r)
        /\ \E i \in CallsOf(r, {"sentiment_analysis"}) :
              /\ calls[r][i].out.ok
              /\ StrUpper(StrStrip(calls[r][i].out.content))
                    \notin {POSITIVE, NEGATIVE, NEUTRAL}
        /\ \E i \in CallsOf(r, {"political_analysis"}) : ~calls[r][i].out.ok
        /\ state[r]["sentiment"] = NEUTRAL
        /\ state[r]["is_political"] = NO

\* no line of the text starts with 'OCR:' or with 'CONTENT_TYPE:'
NoPrefixLine(text) ==
    LET lines == StrSplit(text, "\n")
    IN  \A i \in 1..Len(lines) :
            /\ ~StartsWith(lines[i], OcrPrefix)
            /\ ~StartsWith(lines[i], ContentTypePrefix)

\* C5: when the entry call succeeds and its response has neither an 'OCR:'
\* line nor a 'CONTENT_TYPE:' line, the entry stage returns a record whose
\* text is the entire response and whose category is OTHER, and does not fail.
C5_FallbackWholeResponse ==
    \A r \in Requests :
        (EntryRan(r) /\ EntryOut(r).ok /\ NoPrefixLine(EntryOut(r).content)) =>
            /\ pc[r] # "raised"
            /\ state[r]["ocr_result"] = EntryOut(r).content
            /\ state[r]["content_type"] = OTHER_TYPE

\* the entry call failed with a message the entry stage recognizes as the
\* region-blocked condition
EntryDenied(r) ==
    /\ EntryRan(r)
    /\ ~EntryOut(r).ok
    /\ \/ Contains(EntryOut(r).msg, RegionMarker)
       \/ Contains(EntryOut(r).msg, Marker403)

\* the stage a walk along `walk` executes after the stages of `done`
Position(walk, done) ==
    IF Len(done) < Len(walk) THEN walk[Len(done) + 1] ELSE "END"

\* C6: after a region-blocked failure of the entry call the entry stage has
\* not raised: the record has content_type ERROR, the five category fields
\* empty and usage {error: message}, and the run goes from ocr straight along
\* sentiment_analysis, political_analysis, outrage_analysis, result, with a
\* step of the next of these stages possible until the run has finished.
C6_DenialContained ==
    \A r \in Requests :
        EntryDenied(r) =>
            /\ pc[r] # "raised"
            /\ state[r]["content_type"] = ERROR
            /\ \A k \in {"search_results", "meme_name", "explain_humor",
                         "social_media_platform", "poster_name"} :
                   state[r][k] = EMPTY
            /\ state[r]["cb"] = [error |-> EntryOut(r).msg]
            /\ Len(trace[r]) <= 5
            /\ trace[r] = SubSeq(<<"ocr">> \o TailWalk, 1, Len(trace[r]))
            /\ pc[r] = Position(<<"ocr">> \o TailWalk, trace[r])
            /\ ~Done(r) =>
                  ENABLED (\/ sentiment_analysis(r) \/ political_analysis(r)
                           \/ outrage_analysis(r) \/ result(r))

\* a run finished after a region-blocked failure of the entry call
C6_Witness ==
    \E r \in Requests :
        /\ EntryDenied(r)
        /\ Done(r)
        /\ state[r]["content_type"] = ERROR
        /\ trace[r] = <<"ocr">> \o TailWalk

\* C7: after an access denial on the entry call the tail runs on empty text:
\* no tail stage calls the capability and the final record has category
\* ERROR, sentiment NEUTRAL, is_political NO and is_outrage NO.
C7_DenialTailOnEmptyText ==
    \A r \in Requests :
        EntryDenied(r) =>
            /\ StrStrip(state[r]["ocr_result"]) = <<>>
            /\ CallsOf(r, TailStages) = {}
            /\ Done(r) =>
                  /\ state[r]["content_type"] = ERROR
                  /\ state[r]["sentiment"] = NEUTRAL
                  /\ state[r]["is_political"] = NO
                  /\ state[r]["is_outrage"] = NO

C9_EmptyTextTail ==
    \A r \in Requests :
        ("ocr_result" \in DOMAIN state[r]
            /\ StrStrip(state[r]["ocr_result"]) = <<>>) =>
            /\ CallsOf(r, TailStages) = {}
            /\ Done(r) =>
                  /\ state[r]["sentiment"] = NEUTRAL
                  /\ state[r]["is_political"] = NO
                  /\ state[r]["is_outrage"] = NO

\* a finished run whose entry response had only blanks after 'OCR:'
C9_Witness ==
    \E r \in Requests :
        /\ Done(r)
        /\ state[r]["ocr_result"] = <<>>
        /\ EntryOut(r).ok
        /\ Contains(EntryOut(r).content, <<"O", "C", "R", ":", " ">>)
        /\ state[r]["sentiment"] = NEUTRAL
        /\ Len(calls[r]) = 1

\* the values of a category field whose stage did not apply
Defaults == {EMPTY, NA}

\* C10: in the record of a finished run every key is present, and a category
\* field holds a value other than '' and 'N/A' only on its own branch:
\* search_results for ARTICLE and FACTS, meme_name and explain_humor for MEME,
\* social_media_platform and poster_name for SOCIAL_MEDIA.
C10_UntakenBranchDefaults ==
    \A r \in Requests :
        Done(r) =>
            /\ DOMAIN state[r] = GraphState
            /\ state[r]["content_type"] \notin {ARTICLE, FACTS}
                  => state[r]["search_results"] \in Defaults
            /\ state[r]["content_type"] # MEME
                  => /\ state[r]["meme_name"] \in Defaults
                     /\ state[r]["explain_humor"] \in Defaults
            /\ state[r]["content_type"] # SOCIAL_MEDIA
                  => /\ state[r]["social_media_platform"] \in Defaults
                     /\ state[r]["poster_name"] \in Defaults

\* a finished SOCIAL_MEDIA run: its own fields are set, the others are not
C10_Witness ==
    \E r \in Requests :
        /\ Done(r)
        /\ state[r]["content_type"] = SOCIAL_MEDIA
        /\ state[r]["poster_name"] \notin Defaults
        /\ state[r]["social_media_platform"] \notin Defaults
        /\ state[r]["search_results"] = EMPTY
        /\ state[r]["meme_name"] = EMPTY
        /\ state[r]["explain_humor"] = EMPTY

\* C11: content_type is written by the entry stage alone: once the record
\* has the key, no step of any later stage changes its value.
C11_CategoryWrittenOnce ==
    [][\A r \in Requests :
          "content_type" \in DOMAIN state[r] =>
              /\ "content_type" \in DOMAIN state'[r]
              /\ state'[r]["content_type"] = state[r]["content_type"]]_vars

\* a finished run of a branch with its calls made: the category is still the
\* one the entry stage parsed from its response
C11_Witness ==
    \E r \in Requests :
        /\ Done(r)
        /\ Len(trace[r]) = 7
        /\ Len(calls[r]) = 6
        /\ EntryOut(r).ok
        /\ state[r]["content_type"]
              = ParseLines(StrSplit(EntryOut(r).content, "\n"),
                           EMPTY, OTHER_TYPE).content_type

\* the categories of the data model
Categories == {MEME, ARTICLE, FACTS, SOCIAL_MEDIA, OTHER_TYPE, ERROR}

\* C12: the category the entry stage stores is one of MEME, ARTICLE, FACTS,
\* SOCIAL_MEDIA, OTHER or ERROR, whatever the 'CONTENT_TYPE:' line holds.
C12_CategoryInEnum ==
    \A r \in Requests :
        (EntryRan(r) /\ pc[r] # "raised") =>
            state[r]["content_type"] \in Categories

\* the platform call of the request: its index in calls[r], if it was made
PlatformCalls(r) == CallsOf(r, {"social_media_detection"})

\* C13: in social_media_detection a capability answer that is 'x' or 'X'
\* after trimming is stored as TWITTER, and any other answer outside the
\* platform enum as UNKNOWN.
C13_PlatformNormalized ==
    \A r \in Requests :
        \A i \in PlatformCalls(r) :
            LET out == calls[r][i].out
                answer == StrUpper(StrStrip(out.content))
            IN  out.ok =>
                    /\ answer = <<"X">>
                          => state[r]["social_media_platform"] = TWITTER
                    /\ (answer # <<"X">> /\ answer \notin valid_platforms)
                          => state[r]["social_media_platform"] = UNKNOWN

\* the meme-name call of the request failed
MemeNameCallFailed(r) ==
    \E i \in CallsOf(r, {"meme_name_analysis"}) : ~calls[r][i].out.ok

\* C14: when the meme-name call of a MEME run with text fails, meme_name is
\* 'Analysis Failed', no exception leaves the run, and the humor-explanation
\* stage, once executed, has written a value to explain_humor.
C14_MemeNameFailureContinues ==
    \A r \in Requests :
        MemeNameCallFailed(r) =>
            /\ state[r]["meme_name"] = AnalysisFailed
            /\ pc[r] # "raised"
            /\ (\E i \in 1..Len(trace[r]) : trace[r][i] = "explain_humor_analysis")
                  => state[r]["explain_humor"] # EMPTY

\* C15: the usage of the final record is the sum of the usage reported for
\* the entry call and for every later completion call the run made.
C15_UsageAccumulated ==
    \A r \in Requests :
        (Done(r) /\ "error" \notin DOMAIN state[r]["cb"]) =>
            /\ state[r]["cb"].total_tokens = billed[r].total_tokens
            /\ state[r]["cb"].total_cost = billed[r].total_cost

\* the stage was executed at position i of the walk of r
RanAt(r, stage, i) == i \in 1..Len(trace[r]) /\ trace[r][i] = stage

\* C19: in a MEME run the humor-explanation stage is executed only after the
\* meme-name stage, and a finished record holds an explain_humor other than
\* '' and 'N/A' only if the meme-name stage ran in that run.
C19_HumorAfterMemeName ==
    \A r \in Requests :
        ("content_type" \in DOMAIN state[r] /\ state[r]["content_type"] = MEME) =>
            /\ \A i \in 1..Len(trace[r]) :
                  RanAt(r, "explain_humor_analysis", i) =>
                      \E j \in 1..(i - 1) : RanAt(r, "meme_name_analysis", j)
            /\ (Done(r) /\ state[r]["explain_humor"] \notin Defaults) =>
                  \E j \in 1..Len(trace[r]) : RanAt(r, "meme_name_analysis", j)

\* a MEME run with text whose meme-name stage got an answer and whose
\* humor-explanation stage was executed next
C19_Witness ==
    \E r \in Requests :
        /\ "content_type" \in DOMAIN state[r]
        /\ state[r]["content_type"] = MEME
        /\ state[r]["meme_name"] \notin Defaults \cup {AnalysisFailed}
        /\ RanAt(r, "meme_name_analysis", 2)
        /\ RanAt(r, "explain_humor_analysis", 3)

(***************************************************************************)
(* Two concurrent requests.  Each has its own workflow, built by its own  *)
(* call of get_workflow; their stages interleave in every order.  The      *)
(* actions are those of Spec, with the capability answers drawn from a     *)
(* part of the input sets.                                                 *)
(***************************************************************************)

\* the node function add_node binds to each stage name
RunNode(stage, st, out, usage) ==
    CASE stage = "ocr" -> ocr_node(st, out, usage)
      [] stage = "search" -> search_node(st, out)
      [] stage = "meme_name_analysis" -> meme_name_analysis_node(st, out)
      [] stage = "explain_humor_analysis" -> explain_humor_analysis_node(st, out)
      [] stage = "social_media_detection" -> social_media_detection_node(st, out)
      [] stage = "recognise_poster" -> recognise_poster_node(st, out)
      [] stage = "sentiment_analysis" -> sentiment_analysis_node(st, out)
      [] stage = "political_analysis" -> political_analysis_node(st, out)
      [] stage = "outrage_analysis" -> outrage_analysis_node(st, out)
      [] stage = "result" -> result_node(st)

\* the outcomes each stage's call may have in the concurrent runs
ConcOutcomes(stage) ==
    CASE stage = "ocr" ->
             Outcomes({ <<"O", "C", "R", ":", " ", "h", "i", "\n", "C", "O", "N", "T", "E", "N", "T", "_", "T", "Y", "P", "E", ":", " ", "M", "E", "M", "E">>,
                        <<"O", "C", "R", ":", " ", "h", "i", "\n", "C", "O", "N", "T", "E", "N", "T", "_", "T", "Y", "P", "E", ":", " ", "S", "O", "C", "I", "A", "L", "_", "M", "E", "D", "I", "A">>,
                        <<"O", "C", "R", ":", " ", "h", "i", "\n", "C", "O", "N", "T", "E", "N", "T", "_", "T", "Y", "P", "E", ":", " ", "A", "R", "T", "I", "C", "L", "E">>,
                        <<"O", "C", "R", ":", " ", "\n", "C", "O", "N", "T", "E", "N", "T", "_", "T", "Y", "P", "E", ":", " ", "M", "E", "M", "E">> },
                      { <<"E", "r", "r", "o", "r", " ", "c", "o", "d", "e", ":", " ", "4", "0", "3">>, <<"R", "e", "q", "u", "e", "s", "t", " ", "t", "i", "m", "e", "d", " ", "o", "u", "t", ".">> })
      [] stage = "search" -> Outcomes({ <<"r", "e", "s", "u", "l", "t">> }, {})
      [] stage = "meme_name_analysis" ->
             Outcomes({ <<"D", "r", "a", "k", "e", " ", "P", "o", "i", "n", "t", "i", "n", "g">> }, { <<"R", "e", "q", "u", "e", "s", "t", " ", "t", "i", "m", "e", "d", " ", "o", "u", "t", ".">> })
      [] stage = "social_media_detection" -> Outcomes({ <<"R", "E", "D", "D", "I", "T">> }, {})
      [] stage = "recognise_poster" -> Outcomes({ <<"@", "n", "a", "s", "a">> }, {})
      [] stage = "sentiment_analysis" ->
             Outcomes({ <<"P", "O", "S", "I", "T", "I", "V", "E">> }, { <<"R", "e", "q", "u", "e", "s", "t", " ", "t", "i", "m", "e", "d", " ", "o", "u", "t", ".">> })
      [] stage = "political_analysis" -> Outcomes({ <<"Y", "E", "S">> }, {})
      [] stage = "outrage_analysis" -> Outcomes({ <<"Y", "E", "S">> }, {})

ConcEntryUsage ==
    [prompt_tokens |-> 10, completion_tokens |-> 2, total_tokens |-> 12,
     total_cost |-> 3]

ConcCompletionUsage ==
    [prompt_tokens |-> 4, completion_tokens |-> 1, total_tokens |-> 5,
     total_cost |-> 1]

\* the step of r uses the answers and usages above only
ConcInputs(r) ==
    /\ \A i \in 1..Len(calls'[r]) :
          calls'[r][i].out \in ConcOutcomes(calls'[r][i].stage)
    /\ billed'[r] \in {billed[r],
                       AddUsage(billed[r], IF pc[r] = "ocr" THEN ConcEntryUsage
                                           ELSE ConcCompletionUsage)}

\* both workflows are built, each around its own image
ConcInit ==
    /\ image \in [Requests -> Images]
    /\ pc = [r \in Requests |-> "ocr"]
    /\ state = [r \in Requests |-> EmptyDict]
    /\ exc = [r \in Requests |-> <<>>]
    /\ trace = [r \in Requests |-> <<>>]
    /\ calls = [r \in Requests |-> <<>>]
    /\ billed = [r \in Requests |-> ZeroUsage]
    /\ upload = [r \in Requests |-> NoUpload]
    /\ response = [r \in Requests |-> NoResponse]

ConcNext ==
    \E r \in Requests :
        /\ \/ ocr(r)
           \/ search(r)
           \/ meme_name_analysis(r)
           \/ explain_humor_analysis(r)
           \/ social_media_detection(r)
           \/ recognise_poster(r)
           \/ sentiment_analysis(r)
           \/ political_analysis(r)
           \/ outrage_analysis(r)
           \/ result(r)
        /\ ConcInputs(r)

SpecConc == ConcInit /\ [][ConcNext]_vars

(***************************************************************************)
(* Claims about two concurrent requests.                                   *)
(***************************************************************************)

\* the walk of r is over
Finished(r) == pc[r] \in {"END", "raised"}

\* what the capabilities answered to the calls of r, in order
Outs(r) == [i \in 1..Len(calls[r]) |-> calls[r][i].out]

\* the vision call of r was given the image of r
OwnImage == \A r \in Requests : EntryRan(r) => calls[r][1].arg = image[r]

\* two finished requests with the same image and the same answers end alike
OwnInputsDecide ==
    \A r, q \in Requests :
        (Finished(r) /\ Finished(q) /\ image[r] = image[q] /\ Outs(r) = Outs(q))
            => /\ state[r] = state[q]
               /\ pc[r] = pc[q]
               /\ exc[r] = exc[q]
               /\ trace[r] = trace[q]

\* the outcome of the call the stage of r made in this step, if it made one
StepOut(r) ==
    IF Len(calls'[r]) > Len(calls[r]) THEN calls'[r][Len(calls'[r])].out
    ELSE NoCall

\* a stage of r computes from the record of r alone and writes it alone
OwnRecordOnly ==
    \A r \in Requests :
        trace'[r] # trace[r] =>
            /\ \A q \in Requests \ {r} :
                  /\ state'[q] = state[q]
                  /\ pc'[q] = pc[q]
                  /\ exc'[q] = exc[q]
                  /\ trace'[q] = trace[q]
                  /\ calls'[q] = calls[q]
                  /\ billed'[q] = billed[q]
            /\ LET res == RunNode(pc[r], state[r], StepOut(r), ConcEntryUsage)
               IN  IF res.raised
                   THEN pc'[r] = "raised" /\ exc'[r] = res.msg /\ state'[r] = state[r]
                   ELSE state'[r] = Merge(state[r], res.value)

\* C16: the workflows of two concurrent requests share no state: in every
\* interleaving of their stages the vision call of a request is given that
\* request's image, a stage of one request computes from its own record and
\* leaves the other request's record, walk and calls untouched, and two
\* finished requests with equal images and equal capability answers have
\* equal records.
C16_NoSharedState ==
    /\ [](OwnImage /\ OwnInputsDecide)
    /\ [][OwnRecordOnly]_vars

\* both requests finished, on different images and with different records
C16_Witness ==
    /\ Done(1) /\ Done(2)
    /\ image[1] # image[2]
    /\ Len(trace[1]) = 7 /\ Len(trace[2]) = 6
    /\ state[1]["content_type"] # state[2]["content_type"]

\* the entry stages of r and q produced the same text and the same category
SameEntry(r, q) ==
    /\ {"ocr_result", "content_type"} \subseteq DOMAIN state[r]
    /\ {"ocr_result", "content_type"} \subseteq DOMAIN state[q]
    /\ state[r]["ocr_result"] = state[q]["ocr_result"]
    /\ state[r]["content_type"] = state[q]["content_type"]

\* the stage called its capability in the run of r
Invoked(r, stage) == CallsOf(r, {stage}) # {}

ShorterWalk(r, q) ==
    IF Len(trace[r]) < Len(trace[q]) THEN Len(trace[r]) ELSE Len(trace[q])

\* C20: two runs whose entry stage produced the same text and the same
\* category walk the same stages in the same order and, in every stage after
\* the entry stage that both have executed, either both call the capability
\* or both skip, whatever the capability answered in later stages.
C20_SkipDecisionsDeterministic ==
    \A r, q \in Requests :
        SameEntry(r, q) =>
            /\ \A i \in 1..ShorterWalk(r, q) : trace[r][i] = trace[q][i]
            /\ \A i \in 2..ShorterWalk(r, q) :
                  Invoked(r, trace[r][i]) <=> Invoked(q, trace[r][i])
            /\ Len(trace[r]) = Len(trace[q]) => pc[r] = pc[q]

\* two finished runs with the same entry output whose sentiment calls were
\* answered differently, both of which went on to call the political stage
C20_Witness ==
    /\ Done(1) /\ Done(2)
    /\ SameEntry(1, 2)
    /\ state[1]["sentiment"] # state[2]["sentiment"]
    /\ Invoked(1, "social_media_detection") /\ Invoked(2, "social_media_detection")
    /\ Invoked(1, "political_analysis") /\ Invoked(2, "political_analysis")

(***************************************************************************)
(* services.py and api.py: the POST /analyze handler and the analyze_image *)
(* it calls.  analyze_image builds its own graph from the stage functions  *)
(* of services.py; the handler turns the dict it returns, or the exception *)
(* that leaves it, into the HTTP response.                                 *)
(***************************************************************************)

\* the record the entry stage of services.py returns
svc_OcrRecord(ocr_result, content_type, cb) ==
    [ocr_result |-> ocr_result, content_type |-> content_type,
     search_results |-> EMPTY, meme_name |-> EMPTY, explain_humor |-> EMPTY,
     sentiment |-> EMPTY, is_political |-> EMPTY, is_outrage |-> EMPTY,
     cb |-> cb]

\* ocr_node of services.py: the vision call is not inside any try
svc_ocr_node(st, out, usage) ==
    IF ~out.ok
    THEN Raise(out.msg)
    ELSE LET p == ParseLines(StrSplit(out.content, "\n"), EMPTY, OTHER_TYPE)
         IN  Return(svc_OcrRecord(p.ocr_result, p.content_type, usage))

\* search_node of services.py, statement for statement that of nodes.py
svc_search_node(st, out) == search_node(st, out)

\* meme_name_analysis_node of services.py, as in nodes.py but for the prompt
svc_meme_name_analysis_node(st, out) == meme_name_analysis_node(st, out)

HumorMaxLen == 500

HumorCutLen == 497

Ellipsis == <<".", ".", ".">>

HumorUnavailable == <<"H", "u", "m", "o", "r", " ", "a", "n", "a", "l", "y", "s", "i", "s", " ", "u", "n", "a", "v", "a", "i", "l", "a", "b", "l", "e">>

HumorFailed == <<"H", "u", "m", "o", "r", " ", "a", "n", "a", "l", "y", "s", "i", "s", " ", "f", "a", "i", "l", "e", "d">>

\* svc_explain_humor_analysis_node that cuts after 500 characters
svc_explain_humor_analysis_node_cuts_late(st, out) ==
    IF ~explain_humor_applies(st)
    THEN Return(With(st, "explain_humor", NA))
    ELSE IF out.ok
    THEN LET explanation == StrStrip(out.content)
         IN  Return(With(st, "explain_humor",
                 IF Len(explanation) > HumorMaxLen
                 THEN StrPrefix(explanation, HumorMaxLen) \o Ellipsis
                 ELSE IF explanation = <<>> THEN HumorUnavailable
                 ELSE explanation))
    ELSE Return(With(st, "explain_humor", HumorFailed))

\* explain_humor_analysis_node of services.py, where LLM_API_KEY and MODEL
\* are module constants
svc_explain_humor_analysis_node(st, out) ==
    IF ~explain_humor_applies(st)
    THEN Return(With(st, "explain_humor", NA))
    ELSE IF out.ok
    THEN LET explanation == StrStrip(out.content)
         IN  Return(With(st, "explain_humor",
                 IF Len(explanation) > HumorMaxLen
                 THEN StrPrefix(explanation, HumorCutLen) \o Ellipsis
                 ELSE IF explanation = <<>> THEN HumorUnavailable
                 ELSE explanation))
    ELSE Return(With(st, "explain_humor", HumorFailed))

\* the tail stages of services.py, as in nodes.py
svc_sentiment_analysis_node(st, out) == sentiment_analysis_node(st, out)

svc_political_analysis_node(st, out) == political_analysis_node(st, out)

svc_outrage_analysis_node(st, out) == outrage_analysis_node(st, out)

svc_result_node(st) == Return(st)

\* should_search of services.py
svc_should_search(st) ==
    LET content_type == Get(st, "content_type", OTHER_TYPE)
    IN  IF content_type \in {ARTICLE, FACTS} THEN "search"
        ELSE IF content_type = MEME THEN "meme_name_analysis"
        ELSE "sentiment_analysis"

\* the edges analyze_image adds to its graph
svc_NextStage(stage, st) ==
    CASE stage = "ocr" -> svc_should_search(st)
      [] stage = "search" -> "sentiment_analysis"
      [] stage = "meme_name_analysis" -> "explain_humor_analysis"
      [] stage = "explain_humor_analysis" -> "sentiment_analysis"
      [] stage = "sentiment_analysis" -> "political_analysis"
      [] stage = "political_analysis" -> "outrage_analysis"
      [] stage = "outrage_analysis" -> "result"
      [] stage = "result" -> "END"

\* the dict analyze_image returns for the final record
analyze_image_return(final) ==
    [text |-> Get(final, "ocr_result", EMPTY),
     content_type |-> Get(final, "content_type", EMPTY),
     search_results |-> Get(final, "search_results", EMPTY),
     meme_name |-> Get(final, "meme_name", EMPTY),
     explain_humor |-> Get(final, "explain_humor", EMPTY),
     sentiment |-> Get(final, "sentiment", EMPTY),
     is_political |-> Get(final, "is_political", EMPTY),
     is_outrage |-> Get(final, "is_outrage", EMPTY),
     usage |-> Get(final, "cb", EmptyDict)]

\* the keys the handler reads from the result, in the order it reads them
ReadKeys ==
    <<"text", "content_type", "search_results", "meme_name", "explain_humor",
      "social_media_platform", "poster_name", "sentiment", "is_political",
      "is_outrage", "usage">>

\* str(KeyError(key))
KeyErrorMessage ==
    [text |-> <<"'", "t", "e", "x", "t", "'">>,
     content_type |-> <<"'", "c", "o", "n", "t", "e", "n", "t", "_", "t", "y", "p", "e", "'">>,
     search_results |-> <<"'", "s", "e", "a", "r", "c", "h", "_", "r", "e", "s", "u", "l", "t", "s", "'">>,
     meme_name |-> <<"'", "m", "e", "m", "e", "_", "n", "a", "m", "e", "'">>,
     explain_humor |-> <<"'", "e", "x", "p", "l", "a", "i", "n", "_", "h", "u", "m", "o", "r", "'">>,
     social_media_platform |-> <<"'", "s", "o", "c", "i", "a", "l", "_", "m", "e", "d", "i", "a", "_", "p", "l", "a", "t", "f", "o", "r", "m", "'">>,
     poster_name |-> <<"'", "p", "o", "s", "t", "e", "r", "_", "n", "a", "m", "e", "'">>,
     sentiment |-> <<"'", "s", "e", "n", "t", "i", "m", "e", "n", "t", "'">>,
     is_political |-> <<"'", "i", "s", "_", "p", "o", "l", "i", "t", "i", "c", "a", "l", "'">>,
     is_outrage |-> <<"'", "i", "s", "_", "o", "u", "t", "r", "a", "g", "e", "'">>,
     usage |-> <<"'", "u", "s", "a", "g", "e", "'">>]

allowed_types ==
    { <<"i", "m", "a", "g", "e", "/", "j", "p", "e", "g">>, <<"i", "m", "a", "g", "e", "/", "j", "p", "g">>, <<"i", "m", "a", "g", "e", "/", "p", "n", "g">>, <<"i", "m", "a", "g", "e", "/", "w", "e", "b", "p">>,
      <<"i", "m", "a", "g", "e", "/", "g", "i", "f">>, <<"i", "m", "a", "g", "e", "/", "b", "m", "p">>, <<"i", "m", "a", "g", "e", "/", "t", "i", "f", "f">> }

ImagePrefix == <<"i", "m", "a", "g", "e", "/">>

\* the test the handler makes on file.content_type (None and '' are falsy)
is_image(content_type) ==
    /\ content_type # <<>>
    /\ content_type \in allowed_types \/ StartsWith(content_type, ImagePrefix)

\* str() of the HTTPException the handler raises for another kind of file
NotAnImageMessage(content_type) ==
    <<"4", "0", "0", ":", " ", "F", "i", "l", "e", " ", "m", "u", "s", "t", " ", "b", "e", " ", "a", "n", " ", "i", "m", "a", "g", "e", ".", " ", "R", "e", "c", "e", "i", "v", "e", "d", ":", " ">> \o content_type

RegionDetail == <<"O", "p", "e", "n", "A", "I", " ", "A", "P", "I", " ", "i", "s", " ", "n", "o", "t", " ", "a", "v", "a", "i", "l", "a", "b", "l", "e", " ", "i", "n", " ", "y", "o", "u", "r", " ", "r", "e", "g", "i", "o", "n", ".", " ", "P", "l", "e", "a", "s", "e", " ", "u", "s", "e", " ", "a", " ", "V", "P", "N", " ", "o", "r", " ", "c", "o", "n", "t", "a", "c", "t", " ", "s", "u", "p", "p", "o", "r", "t", " ", "f", "o", "r", " ", "a", "l", "t", "e", "r", "n", "a", "t", "i", "v", "e", " ", "s", "o", "l", "u", "t", "i", "o", "n", "s", ".">>

\* the except clause answering every exception with status 500
handler_except_always_500(error_msg) ==
    [status |-> 500, detail |-> error_msg, body |-> EmptyDict]

\* the except clause of the handler: the response for an exception raised
\* inside its try block
handler_except(error_msg) ==
    IF Contains(error_msg, RegionMarker)
    THEN [status |-> 403, detail |-> RegionDetail, body |-> EmptyDict]
    ELSE [status |-> 500, detail |-> error_msg, body |-> EmptyDict]

\* the positions of ReadKeys whose key the dict lacks
MissingReads(res) ==
    { i \in 1..Len(ReadKeys) : ReadKeys[i] \notin DOMAIN res }

\* the return statement of the handler: it reads the keys in order, and the
\* first one missing raises KeyError inside the try block
handler_return(up, res) ==
    IF MissingReads(res) # {}
    THEN LET first == CHOOSE i \in MissingReads(res) :
                          \A j \in MissingReads(res) : i <= j
         IN  handler_except(KeyErrorMessage[ReadKeys[first]])
    ELSE [status |-> 200, detail |-> <<>>,
          body |-> [k \in {"filename", "analyzed_by"}
                          \cup { ReadKeys[i] : i \in 1..Len(ReadKeys) } |->
                       IF k = "filename" THEN up.filename
                       ELSE IF k = "analyzed_by" THEN up.user_email
                       ELSE res[k]]]

\* the uploads a client may post: the file's name and declared type, and
\* the e-mail of the logged-in user or 'anonymous'
Uploads ==
    [filename : { <<"a", ".", "p", "n", "g">> },
     content_type : { <<"i", "m", "a", "g", "e", "/", "p", "n", "g">>, <<"i", "m", "a", "g", "e", "/", "h", "e", "i", "c">>, <<"t", "e", "x", "t", "/", "p", "l", "a", "i", "n">>, <<>> },
     user_email : { <<"a", "n", "o", "n", "y", "m", "o", "u", "s">>, <<"u", "@", "x", ".", "i", "o">> }]

\* what the capabilities may answer to the calls of analyze_image
SvcOutcomes(stage) ==
    CASE stage = "ocr" ->
             Outcomes({ <<"O", "C", "R", ":", " ", "h", "i", "\n", "C", "O", "N", "T", "E", "N", "T", "_", "T", "Y", "P", "E", ":", " ", "M", "E", "M", "E">>,
                        <<"O", "C", "R", ":", " ", "h", "i", "\n", "C", "O", "N", "T", "E", "N", "T", "_", "T", "Y", "P", "E", ":", " ", "S", "O", "C", "I", "A", "L", "_", "M", "E", "D", "I", "A">>,
                        <<"O", "C", "R", ":", " ", "h", "i", "\n", "C", "O", "N", "T", "E", "N", "T", "_", "T", "Y", "P", "E", ":", " ", "A", "R", "T", "I", "C", "L", "E">>,
                        <<"O", "C", "R", ":", " ", "h", "i", "\n", "C", "O", "N", "T", "E", "N", "T", "_", "T", "Y", "P", "E", ":", " ", "O", "T", "H", "E", "R">>,
                        <<"O", "C", "R", ":", " ", "\n", "C", "O", "N", "T", "E", "N", "T", "_", "T", "Y", "P", "E", ":", " ", "S", "O", "C", "I", "A", "L", "_", "M", "E", "D", "I", "A">> },
                      LlmErrors)
      [] stage = "search" -> Outcomes({ <<"r", "e", "s", "u", "l", "t">> }, { <<"R", "e", "q", "u", "e", "s", "t", " ", "t", "i", "m", "e", "d", " ", "o", "u", "t", ".">> })
      [] stage = "meme_name_analysis" ->
             Outcomes({ <<"D", "r", "a", "k", "e", " ", "P", "o", "i", "n", "t", "i", "n", "g">> }, { <<"R", "e", "q", "u", "e", "s", "t", " ", "t", "i", "m", "e", "d", " ", "o", "u", "t", ".">> })
      [] stage = "explain_humor_analysis" ->
             Outcomes({ <<"I", "t", " ", "i", "s", " ", "i", "r", "o", "n", "i", "c", ".">>, <<>>, <<" ", "\n">>, Rep("h", 500),
                        Rep("h", 501), <<" ">> \o Rep("h", 500) \o <<" ">> },
                      { <<"R", "e", "q", "u", "e", "s", "t", " ", "t", "i", "m", "e", "d", " ", "o", "u", "t", ".">> })
      [] stage = "sentiment_analysis" ->
             Outcomes({ <<"P", "O", "S", "I", "T", "I", "V", "E">>, <<"m", "a", "y", "b", "e">> }, { <<"R", "e", "q", "u", "e", "s", "t", " ", "t", "i", "m", "e", "d", " ", "o", "u", "t", ".">> })
      [] stage = "political_analysis" ->
             Outcomes({ <<"Y", "E", "S">> }, { <<"R", "e", "q", "u", "e", "s", "t", " ", "t", "i", "m", "e", "d", " ", "o", "u", "t", ".">> })
      [] stage = "outrage_analysis" ->
             Outcomes({ <<"y", "e", "s">> }, { <<"R", "e", "q", "u", "e", "s", "t", " ", "t", "i", "m", "e", "d", " ", "o", "u", "t", ".">> })

\* the usage the completion capability reports for a call of a later stage
SvcCompletionUsage ==
    [prompt_tokens |-> 4, completion_tokens |-> 1, total_tokens |-> 5,
     total_cost |-> 1]

\* the engine runs one stage of the graph of analyze_image
SvcStep(r, stage, res, made) ==
    /\ trace' = [trace EXCEPT ![r] = Append(@, stage)]
    /\ calls' = [calls EXCEPT ![r] = @ \o made]
    /\ IF res.raised
       THEN /\ pc' = [pc EXCEPT ![r] = "raised"]
            /\ exc' = [exc EXCEPT ![r] = res.msg]
            /\ UNCHANGED state
       ELSE /\ state' = [state EXCEPT ![r] = Merge(@, res.value)]
            /\ pc' = [pc EXCEPT ![r] = svc_NextStage(stage, Merge(state[r], res.value))]
            /\ UNCHANGED exc
    /\ UNCHANGED <<image, upload, response>>

\* the stage function analyze_image binds to each stage after the entry
svc_node(stage, st, out) ==
    CASE stage = "search" -> svc_search_node(st, out)
      [] stage = "meme_name_analysis" -> svc_meme_name_analysis_node(st, out)
      [] stage = "explain_humor_analysis" -> svc_explain_humor_analysis_node(st, out)
      [] stage = "sentiment_analysis" -> svc_sentiment_analysis_node(st, out)
      [] stage = "political_analysis" -> svc_political_analysis_node(st, out)
      [] stage = "outrage_analysis" -> svc_outrage_analysis_node(st, out)

\* a stage of analyze_image after the entry stage: it calls the completion
\* or search capability when its guard holds
SvcStage(r, stage, invokes, arg) ==
    /\ pc[r] = stage
    /\ IF invokes
       THEN \E out \in SvcOutcomes(stage) :
               /\ SvcStep(r, stage, svc_node(stage, state[r], out),
                          <<Call(stage, arg, out)>>)
               /\ IF stage = "search" THEN UNCHANGED billed
                  ELSE Bill(r, out, SvcCompletionUsage)
       ELSE /\ SvcStep(r, stage, svc_node(stage, state[r], NoCall), <<>>)
            /\ UNCHANGED billed

\* POST /analyze arrives: one request with its file
ApiInit ==
    /\ \E up \in Uploads, contents \in Images :
          /\ upload = [r \in Requests |-> IF r = 1 THEN up ELSE NoUpload]
          /\ image = [r \in Requests |-> IF r = 1 THEN contents ELSE <<>>]
    /\ pc = [r \in Requests |-> IF r = 1 THEN "analyze_file" ELSE "idle"]
    /\ state = [r \in Requests |-> EmptyDict]
    /\ exc = [r \in Requests |-> <<>>]
    /\ trace = [r \in Requests |-> <<>>]
    /\ calls = [r \in Requests |-> <<>>]
    /\ billed = [r \in Requests |-> ZeroUsage]
    /\ response = [r \in Requests |-> NoResponse]

\* the handler up to the call of analyze_image: the test of the file type,
\* whose HTTPException is raised inside the try block and so reaches the
\* except clause; otherwise the file is read and the graph is built
analyze_file(r) ==
    /\ pc[r] = "analyze_file"
    /\ IF is_image(upload[r].content_type)
       THEN /\ pc' = [pc EXCEPT ![r] = "ocr"]
            /\ UNCHANGED response
       ELSE /\ pc' = [pc EXCEPT ![r] = "responded"]
            /\ response' = [response EXCEPT ![r] =
                   handler_except(NotAnImageMessage(upload[r].content_type))]
    /\ UNCHANGED <<state, image, exc, trace, calls, billed, upload>>

svc_ocr(r) ==
    /\ pc[r] = "ocr"
    /\ upload[r] # NoUpload
    /\ \E out \in SvcOutcomes("ocr"), usage \in EntryUsages :
          /\ SvcStep(r, "ocr", svc_ocr_node(state[r], out, usage),
                     <<Call("ocr", image[r], out)>>)
          /\ Bill(r, out, usage)

svc_search(r) ==
    /\ upload[r] # NoUpload
    /\ SvcStage(r, "search", search_invokes(state[r]),
                search_query(Get(state[r], "ocr_result", EMPTY)))

svc_meme_name_analysis(r) ==
    /\ upload[r] # NoUpload
    /\ SvcStage(r, "meme_name_analysis", meme_name_invokes(state[r]),
                Get(state[r], "ocr_result", EMPTY))

svc_explain_humor_analysis(r) ==
    /\ upload[r] # NoUpload
    /\ SvcStage(r, "explain_humor_analysis", explain_humor_applies(state[r]),
                Get(state[r], "ocr_result", EMPTY))

svc_sentiment_analysis(r) ==
    /\ upload[r] # NoUpload
    /\ SvcStage(r, "sentiment_analysis", tail_invokes(state[r]),
                Get(state[r], "ocr_result", EMPTY))

svc_political_analysis(r) ==
    /\ upload[r] # NoUpload
    /\ SvcStage(r, "political_analysis", tail_invokes(state[r]),
                Get(state[r], "ocr_result", EMPTY))

svc_outrage_analysis(r) ==
    /\ upload[r] # NoUpload
    /\ SvcStage(r, "outrage_analysis", tail_invokes(state[r]),
                Get(state[r], "ocr_result", EMPTY))

svc_result(r) ==
    /\ pc[r] = "result"
    /\ upload[r] # NoUpload
    /\ SvcStep(r, "result", svc_result_node(state[r]), <<>>)
    /\ UNCHANGED billed

\* analyze_image returns its dict and the handler builds the response
analyze_file_return(r) ==
    /\ pc[r] = "END"
    /\ upload[r] # NoUpload
    /\ response[r] = NoResponse
    /\ pc' = [pc EXCEPT ![r] = "responded"]
    /\ response' = [response EXCEPT ![r] =
           handler_return(upload[r], analyze_image_return(state[r]))]
    /\ UNCHANGED <<state, image, exc, trace, calls, billed, upload>>

\* an exception left analyze_image: the except clause of the handler
analyze_file_except(r) ==
    /\ pc[r] = "raised"
    /\ upload[r] # NoUpload
    /\ response[r] = NoResponse
    /\ pc' = [pc EXCEPT ![r] = "responded"]
    /\ response' = [response EXCEPT ![r] = handler_except(exc[r])]
    /\ UNCHANGED <<state, image, exc, trace, calls, billed, upload>>

ApiNext ==
    \E r \in Requests :
        \/ analyze_file(r)
        \/ svc_ocr(r)
        \/ svc_search(r)
        \/ svc_meme_name_analysis(r)
        \/ svc_explain_humor_analysis(r)
        \/ svc_sentiment_analysis(r)
        \/ svc_political_analysis(r)
        \/ svc_outrage_analysis(r)
        \/ svc_result(r)
        \/ analyze_file_return(r)
        \/ analyze_file_except(r)

SpecApi == ApiInit /\ [][ApiNext]_vars

\* the field keys of the analysis record, as the transport layer names them
RecordKeys ==
    {"text", "content_type", "search_results", "meme_name", "explain_humor",
     "social_media_platform", "poster_name", "sentiment", "is_political",
     "is_outrage", "usage"}

\* the analysis of r ran to its result stage
Analyzed(r) == trace[r] # <<>> /\ trace[r][Len(trace[r])] = "result"

\* C17: the dict analyze_image returns holds every field key of the analysis
\* record, and a request whose analysis ran to the result stage is answered
\* with status 200, never with a missing-key error.
C17_ResultHasEveryKey ==
    \A r \in Requests :
        /\ pc[r] = "END" => RecordKeys \subseteq DOMAIN analyze_image_return(state[r])
        /\ (pc[r] = "responded" /\ Analyzed(r)) => response[r].status = 200

\* C18: a request through analyze_image whose entry stage classified the
\* image as SOCIAL_MEDIA executes social_media_detection and then
\* recognise_poster before its first tail stage.
C18_SocialBranchThroughApi ==
    \A r \in Requests :
        (/\ upload[r] # NoUpload
         /\ Len(trace[r]) >= 2
         /\ Get(state[r], "content_type", EMPTY) = SOCIAL_MEDIA)
            => /\ trace[r][2] = "social_media_detection"
               /\ Len(trace[r]) >= 3 => trace[r][3] = "recognise_poster"

(***************************************************************************)
(* The category-specific stage functions on their own: each is applied to  *)
(* a record the entry stage may have returned, whatever its category and   *)
(* text, as when an edge of the graph leads to a stage the record does not *)
(* match.                                                                  *)
(***************************************************************************)

\* extracted texts: short, blank, and long ones with a period early, late,
\* past the 200th character, or none
StageTexts ==
    { <<"h", "i">>, <<>>, <<" ", " ">>,
      <<"B", "u", "y", " ", "n", "o", "w", ".", " ", "T", "o", "d", "a", "y">>,
      <<"A", "b", "c", ".">> \o Rep("a", 96),
      Rep("a", 101),
      <<"A", "b", "c", ".">> \o Rep("a", 97),
      Rep("a", 120) \o <<".">> \o Rep("b", 20),
      Rep("a", 210) \o <<".">> \o Rep("b", 39),
      <<" ", " ", " ", "A", "b", "c", ".">> \o Rep("a", 200),
      Rep("a", 99) \o Rep(" ", 101) \o <<".", " ", "x">> }

\* the records the stages are applied to
StageRecords ==
    { OcrRecord(text, content_type,
                [prompt_tokens |-> 10, completion_tokens |-> 2,
                 total_tokens |-> 12, total_cost |-> 3]) :
        text \in StageTexts, content_type \in Categories }

BranchStages ==
    {"search", "meme_name_analysis", "explain_humor_analysis",
     "social_media_detection", "recognise_poster"}

\* a category-specific stage is about to run on a record
StageInit ==
    /\ \E d \in StageRecords, stage \in BranchStages :
          /\ state = [r \in Requests |-> IF r = 1 THEN d ELSE EmptyDict]
          /\ pc = [r \in Requests |-> IF r = 1 THEN stage ELSE "idle"]
    /\ image = [r \in Requests |-> <<>>]
    /\ exc = [r \in Requests |-> <<>>]
    /\ trace = [r \in Requests |-> <<>>]
    /\ calls = [r \in Requests |-> <<>>]
    /\ billed = [r \in Requests |-> ZeroUsage]
    /\ upload = [r \in Requests |-> NoUpload]
    /\ response = [r \in Requests |-> NoResponse]

StageNext ==
    \E r \in Requests :
        \/ search(r)
        \/ meme_name_analysis(r)
        \/ explain_humor_analysis(r)
        \/ social_media_detection(r)
        \/ recognise_poster(r)

SpecStage == StageInit /\ [][StageNext]_vars

(***************************************************************************)
(* Claims about the walk and about the stages one by one.                  *)
(***************************************************************************)

\* no stage name occurs twice in the walk of r
NoRepeat(r) ==
    \A i, j \in 1..Len(trace[r]) : trace[r][i] = trace[r][j] => i = j

\* the result stage is the last stage of the walk of r
ResultRan(r) == trace[r] # <<>> /\ trace[r][Len(trace[r])] = "result"

\* a step of the walk of r executes the one stage the walk stands at, and
\* none once the result stage has run
OneStagePerStep ==
    \A r \in Requests :
        trace'[r] # trace[r] =>
            /\ pc[r] \in Stages
            /\ trace'[r] = Append(trace[r], pc[r])
            /\ ~ResultRan(r)

\* C21: the walk is acyclic and single-pass: no stage name is executed twice
\* in a run, each step of a run executes exactly the one stage the run
\* stands at, and once the result stage has run the run is at its end and
\* executes nothing more.
C21_SinglePass ==
    /\ [](\A r \in Requests : NoRepeat(r) /\ (ResultRan(r) => pc[r] = "END"))
    /\ [][OneStagePerStep]_vars

\* a run that went through a branch of two stages and the whole tail
C21_Witness ==
    /\ Done(1)
    /\ Len(trace[1]) = 7
    /\ ResultRan(1)
\* the calls of r to the completion capability, the vision call included
CompletionCalls(r) == CallsOf(r, Stages \ {"search"})

\* the calls of r to the search capability
SearchCalls(r) == CallsOf(r, {"search"})

\* C22: no stage calls its capability a second time in a run, also after a
\* failed call; a run makes at most six completion calls, and a run that
\* went through the search stage makes at most one search call and at most
\* four completion calls.
C22_NoRetries ==
    \A r \in Requests :
        /\ \A stage \in Stages : Cardinality(CallsOf(r, {stage})) <= 1
        /\ Cardinality(CompletionCalls(r)) <= 6
        /\ (\E i \in 1..Len(trace[r]) : trace[r][i] = "search") =>
              /\ Cardinality(SearchCalls(r)) <= 1
              /\ Cardinality(CompletionCalls(r)) <= 4

\* a finished run with six completion calls, one of which failed
C22_Witness ==
    /\ Done(1)
    /\ Cardinality(CompletionCalls(1)) = 6
    /\ \E i \in CompletionCalls(1) : ~calls[1][i].out.ok
\* the categories each category-specific stage is for
StageCategories ==
    [search |-> {ARTICLE, FACTS},
     meme_name_analysis |-> {MEME},
     explain_humor_analysis |-> {MEME},
     social_media_detection |-> {SOCIAL_MEDIA},
     recognise_poster |-> {SOCIAL_MEDIA}]

\* the field each category-specific stage writes
StageKey ==
    [search |-> "search_results",
     meme_name_analysis |-> "meme_name",
     explain_humor_analysis |-> "explain_humor",
     social_media_detection |-> "social_media_platform",
     recognise_poster |-> "poster_name"]

\* the text has a character that is not white space
HasText(text) == \E i \in 1..Len(text) : text[i] \notin Whitespace

\* the stage applies to the record: its category and some text
StageApplies(stage, st) ==
    /\ "content_type" \in DOMAIN st
    /\ st["content_type"] \in StageCategories[stage]
    /\ HasText(Get(st, "ocr_result", EMPTY))

\* what a stage writes when it does not apply
StageSentinel(stage, st) ==
    IF stage = "search"
    THEN <<"N", "o", " ", "s", "e", "a", "r", "c", "h", " ", "p", "e", "r", "f", "o", "r", "m", "e", "d", " ", "-", " ">> \o Get(st, "content_type", OTHER_TYPE)
             \o <<" ", "c", "o", "n", "t", "e", "n", "t", " ", "d", "o", "e", "s", "n", "'", "t", " ", "r", "e", "q", "u", "i", "r", "e", " ", "f", "a", "c", "t", "-", "c", "h", "e", "c", "k", "i", "n", "g">>
    ELSE <<"N", "/", "A">>

\* C23: a category-specific stage executed on a record of another category,
\* or on one whose text is empty or blank, makes no capability call, does
\* not raise, and changes the record only by writing the not-applicable
\* value of its own field.
C23_StageRechecksApplicability ==
    [][\A r \in Requests :
          (pc[r] \in BranchStages /\ trace'[r] # trace[r]
              /\ ~StageApplies(pc[r], state[r]))
            => /\ calls'[r] = calls[r]
               /\ pc'[r] # "raised"
               /\ state'[r] = With(state[r], StageKey[pc[r]],
                                   StageSentinel(pc[r], state[r]))]_vars

\* social_media_detection has run on a MEME record with text and skipped
C23_Witness ==
    /\ trace[1] = <<"social_media_detection">>
    /\ state[1]["content_type"] = MEME
    /\ state[1]["ocr_result"] = <<"h", "i">>
    /\ state[1]["social_media_platform"] = <<"N", "/", "A">>
    /\ calls[1] = <<>>
\* C24: a stage that is executed without calling its capability leaves the
\* usage field (cb) of the record as it was.
C24_SkipKeepsUsage ==
    [][\A r \in Requests :
          (trace'[r] # trace[r] /\ calls'[r] = calls[r]
              /\ "cb" \in DOMAIN state[r])
            => /\ "cb" \in DOMAIN state'[r]
               /\ state'[r]["cb"] = state[r]["cb"]]_vars

\* the meme-name stage has skipped on a MEME record without text, and the
\* usage of the entry call is still in the record
C24_Witness ==
    /\ trace[1] = <<"ocr", "meme_name_analysis">>
    /\ Len(calls[1]) = 1
    /\ state[1]["meme_name"] = <<"N", "/", "A">>
    /\ state[1]["cb"] = billed[1]
    /\ billed[1].total_tokens > 0
\* the step of r is the search stage making a call that fails
SearchCallFails(r) ==
    /\ pc[r] = "search"
    /\ Len(calls'[r]) = Len(calls[r]) + 1
    /\ ~calls'[r][Len(calls'[r])].out.ok

\* C25: when the search stage calls the search capability and the call
\* fails, the stage does not raise: search_results becomes a string that
\* begins with 'Search failed:', every other field stays as it was, and the
\* run goes on to sentiment_analysis.
C25_SearchFailureContained ==
    [][\A r \in Requests :
          SearchCallFails(r) =>
            /\ pc'[r] = "sentiment_analysis"
            /\ exc'[r] = exc[r]
            /\ DOMAIN state'[r] = DOMAIN state[r]
            /\ StartsWith(state'[r]["search_results"], <<"S", "e", "a", "r", "c", "h", " ", "f", "a", "i", "l", "e", "d", ":">>)
            /\ \A k \in DOMAIN state[r] \ {"search_results"} :
                  state'[r][k] = state[r][k]]_vars

\* the search call of an ARTICLE run failed and the run stands at the tail
C25_Witness ==
    /\ trace[1] = <<"ocr", "search">>
    /\ state[1]["content_type"] = ARTICLE
    /\ Len(calls[1]) = 2 /\ ~calls[1][2].out.ok
    /\ state[1]["search_results"] = <<"S", "e", "a", "r", "c", "h", " ", "f", "a", "i", "l", "e", "d", ":", " ", "r", "a", "t", "e", " ", "l", "i", "m", "i", "t">>
    /\ pc[1] = "sentiment_analysis"
HasPeriod(q) == \E i \in 1..Len(q) : q[i] = "."

\* q up to and including its first period
UpToFirstPeriod(q) ==
    LET first == CHOOSE i \in 1..Len(q) :
                     q[i] = "." /\ \A j \in 1..(i - 1) : q[j] # "."
    IN  SubSeq(q, 1, first)

\* the first 200 characters of the text, trimmed
TrimmedPrefix(text) ==
    StrStrip(SubSeq(text, 1, IF Len(text) > 200 THEN 200 ELSE Len(text)))

\* the query the search stage is to pass for the text
ExpectedQuery(text) ==
    LET q == TrimmedPrefix(text)
    IN  IF Len(q) > 100 /\ HasPeriod(q) THEN UpToFirstPeriod(q) ELSE q

\* C26: the query passed to the search capability is the trimmed first 200
\* characters of the extracted text, replaced by its part up to and
\* including the first period if and only if it is longer than 100
\* characters and contains a period.
C26_SearchQuery ==
    \A r \in Requests :
        \A i \in SearchCalls(r) :
            calls[r][i].arg = ExpectedQuery(state[r]["ocr_result"])

\* a text of 101 characters with an early period was cut at that period
C26_Witness ==
    /\ trace[1] = <<"search">>
    /\ Len(state[1]["ocr_result"]) = 101
    /\ Len(calls[1]) = 1
    /\ calls[1][1].arg = <<"A", "b", "c", ".">>

\* the query ends at the first period of the trimmed text
CutAtSentence(query, text) ==
    /\ HasPeriod(StrStrip(text))
    /\ query = UpToFirstPeriod(StrStrip(text))

\* C27 as stated: for an ARTICLE record whose text has a period before
\* character 100, the query passed to the search capability is cut at that
\* sentence boundary.
C27_CutWheneverEarlyPeriod ==
    \A r \in Requests :
        \A i \in SearchCalls(r) :
            (/\ state[r]["content_type"] = ARTICLE
             /\ \E p \in 1..99 : p <= Len(state[r]["ocr_result"])
                                   /\ state[r]["ocr_result"][p] = ".")
                => CutAtSentence(calls[r][i].arg, state[r]["ocr_result"])

\* C27 amended: for an ARTICLE record, the query passed to the search
\* capability is cut after the first period whenever the trimmed first 200
\* characters of the text are longer than 100 characters and contain a
\* period, wherever that period is; a trimmed text of at most 100 characters
\* is passed whole, periods included.
C27_CutWhenLongQueryHasPeriod ==
    \A r \in Requests :
        \A i \in SearchCalls(r) :
            state[r]["content_type"] = ARTICLE =>
                LET q == TrimmedPrefix(state[r]["ocr_result"])
                IN  /\ (Len(q) > 100 /\ HasPeriod(q))
                          => calls[r][i].arg = UpToFirstPeriod(q)
                    /\ Len(q) <= 100 => calls[r][i].arg = q

\* an ARTICLE text whose only period is its 121st character was cut there
C27_Witness ==
    /\ trace[1] = <<"search">>
    /\ state[1]["content_type"] = ARTICLE
    /\ Len(state[1]["ocr_result"]) = 141
    /\ Len(calls[1]) = 1
    /\ Len(calls[1][1].arg) = 121
    /\ calls[1][1].arg[121] = "."
\* the closed set of platform names
PlatformEnum ==
    { <<"T", "W", "I", "T", "T", "E", "R">>, <<"F", "A", "C", "E", "B", "O", "O", "K">>, <<"I", "N", "S", "T", "A", "G", "R", "A", "M">>, <<"R", "E", "D", "D", "I", "T">>, <<"T", "I", "K", "T", "O", "K">>,
      <<"L", "I", "N", "K", "E", "D", "I", "N">>, <<"D", "I", "S", "C", "O", "R", "D">>, <<"S", "N", "A", "P", "C", "H", "A", "T">>, <<"Y", "O", "U", "T", "U", "B", "E">>, <<"T", "E", "L", "E", "G", "R", "A", "M">>,
      <<"U", "N", "K", "N", "O", "W", "N">> }

\* the stage has been executed in the run of r
Ran(r, stage) == \E i \in 1..Len(trace[r]) : trace[r][i] = stage

\* C28: once social_media_detection_node has been executed,
\* social_media_platform is 'N/A' if the stage made no call, 'UNKNOWN' if its
\* call failed, and otherwise one of the eleven platform names.
C28_PlatformInEnum ==
    \A r \in Requests :
        Ran(r, "social_media_detection") =>
            LET platform == state[r]["social_media_platform"]
            IN  /\ PlatformCalls(r) = {} => platform = <<"N", "/", "A">>
                /\ \A i \in PlatformCalls(r) :
                      /\ platform \in PlatformEnum
                      /\ ~calls[r][i].out.ok => platform = <<"U", "N", "K", "N", "O", "W", "N">>

\* the capability named a platform outside the set and UNKNOWN was stored
C28_Witness ==
    /\ Ran(1, "social_media_detection")
    /\ \E i \in PlatformCalls(1) :
          calls[1][i].out.ok /\ calls[1][i].out.content = <<"M", "a", "s", "t", "o", "d", "o", "n">>
    /\ state[1]["social_media_platform"] = <<"U", "N", "K", "N", "O", "W", "N">>
MemeNameCalls(r) == CallsOf(r, {"meme_name_analysis"})

\* C29: once meme_name_analysis_node has been executed, meme_name is 'N/A'
\* and no call was made if the category is not MEME or the text is blank;
\* otherwise one call was made and meme_name is 'Analysis Failed' if it
\* raised, 'Unknown Meme' if the trimmed answer is empty or longer than 100
\* characters, and else the trimmed answer, of 1 to 100 characters.
C29_MemeNameValues ==
    \A r \in Requests :
        Ran(r, "meme_name_analysis") =>
            LET meme_name == state[r]["meme_name"]
            IN  IF ~StageApplies("meme_name_analysis", state[r])
                THEN MemeNameCalls(r) = {} /\ meme_name = <<"N", "/", "A">>
                ELSE /\ MemeNameCalls(r) # {}
                     /\ \A i \in MemeNameCalls(r) :
                           LET out == calls[r][i].out
                               answer == StrStrip(out.content)
                           IN  IF ~out.ok
                               THEN meme_name = <<"A", "n", "a", "l", "y", "s", "i", "s", " ", "F", "a", "i", "l", "e", "d">>
                               ELSE IF answer = <<>> \/ Len(answer) > 100
                               THEN meme_name = <<"U", "n", "k", "n", "o", "w", "n", " ", "M", "e", "m", "e">>
                               ELSE /\ meme_name = answer
                                    /\ Len(meme_name) \in 1..100

\* an answer of 100 characters between blanks was stored trimmed
C29_Witness ==
    /\ Ran(1, "meme_name_analysis")
    /\ \E i \in MemeNameCalls(1) :
          calls[1][i].out.ok /\ Len(calls[1][i].out.content) = 102
    /\ Len(state[1]["meme_name"]) = 100
HumorCalls(r) == CallsOf(r, {"explain_humor_analysis"})

\* C30: whenever the humor-explanation stage has called the capability, the
\* stored explain_humor is non-empty and at most 500 characters long:
\* 'Humor analysis failed' if the call raised, 'Humor analysis unavailable'
\* if the trimmed answer is empty, the first 497 characters of the trimmed
\* answer followed by '...' if it is longer than 500 characters, and else
\* the trimmed answer.
C30_HumorBounded ==
    \A r \in Requests :
        \A i \in HumorCalls(r) :
            LET explain_humor == state[r]["explain_humor"]
                out == calls[r][i].out
                answer == StrStrip(out.content)
            IN  /\ Len(explain_humor) \in 1..500
                /\ ~out.ok => explain_humor = <<"H", "u", "m", "o", "r", " ", "a", "n", "a", "l", "y", "s", "i", "s", " ", "f", "a", "i", "l", "e", "d">>
                /\ (out.ok /\ answer = <<>>)
                      => explain_humor = <<"H", "u", "m", "o", "r", " ", "a", "n", "a", "l", "y", "s", "i", "s", " ", "u", "n", "a", "v", "a", "i", "l", "a", "b", "l", "e">>
                /\ (out.ok /\ Len(answer) > 500)
                      => explain_humor = SubSeq(answer, 1, 497) \o <<".", ".", ".">>
                /\ (out.ok /\ Len(answer) \in 1..500) => explain_humor = answer

\* an answer of 501 characters was stored as 497 characters and '...'
C30_Witness ==
    /\ \E i \in HumorCalls(1) :
          calls[1][i].out.ok /\ Len(calls[1][i].out.content) = 501
    /\ Len(state[1]["explain_humor"]) = 500
    /\ SubSeq(state[1]["explain_humor"], 497, 500) = <<"h", ".", ".", ".">>
PosterCalls(r) == CallsOf(r, {"recognise_poster"})

\* the name without its leading '@' or 'u/' marker
WithoutLeadingMarker(name) ==
    IF StartsWith(name, <<"@">>) THEN SubSeq(name, 2, Len(name))
    ELSE IF StartsWith(name, <<"u", "/">>) THEN SubSeq(name, 3, Len(name))
    ELSE name

\* C31: whenever recognise_poster_node has called the capability, the stored
\* poster_name is not empty: it is 'Unknown User' if the call failed or the
\* trimmed answer is empty or longer than 100 characters, and else the
\* trimmed answer without its leading '@' or 'u/', the characters inside
\* the name kept.
C31_PosterCleaned ==
    \A r \in Requests :
        \A i \in PosterCalls(r) :
            LET poster_name == state[r]["poster_name"]
                out == calls[r][i].out
                answer == StrStrip(out.content)
            IN  /\ poster_name # <<>>
                /\ IF ~out.ok \/ answer = <<>> \/ Len(answer) > 100
                   THEN poster_name = <<"U", "n", "k", "n", "o", "w", "n", " ", "U", "s", "e", "r">>
                   ELSE poster_name = WithoutLeadingMarker(answer)
\* the field, the value set and the conservative default of each tail stage
TailKey ==
    [sentiment_analysis |-> "sentiment",
     political_analysis |-> "is_political",
     outrage_analysis |-> "is_outrage"]

TailValues ==
    [sentiment_analysis |-> { <<"P", "O", "S", "I", "T", "I", "V", "E">>, <<"N", "E", "G", "A", "T", "I", "V", "E">>, <<"N", "E", "U", "T", "R", "A", "L">> },
     political_analysis |-> { <<"Y", "E", "S">>, <<"N", "O">> },
     outrage_analysis |-> { <<"Y", "E", "S">>, <<"N", "O">> }]

TailDefault ==
    [sentiment_analysis |-> <<"N", "E", "U", "T", "R", "A", "L">>,
     political_analysis |-> <<"N", "O">>,
     outrage_analysis |-> <<"N", "O">>]

\* what a tail stage is to store for the outcome of its call
TailExpected(stage, out) ==
    IF out.ok /\ StrUpper(StrStrip(out.content)) \in TailValues[stage]
    THEN StrUpper(StrStrip(out.content))
    ELSE TailDefault[stage]

\* C32: a tail stage that calls the capability stores the answer, trimmed
\* and upper-cased, if that is a member of the stage's value set, and the
\* stage's default if it is not or if the call raised; no tail stage raises.
C32_TailAnswerOrDefault ==
    /\ [](\A r \in Requests :
            \A i \in CallsOf(r, TailStages) :
                state[r][TailKey[calls[r][i].stage]]
                    = TailExpected(calls[r][i].stage, calls[r][i].out))
    /\ [][\A r \in Requests :
            (pc[r] \in TailStages /\ trace'[r] # trace[r])
                => pc'[r] # "raised"]_vars

\* a finished run whose tail stored a normalised answer, the default for an
\* answer outside the set, and the default for a failed call
C32_Witness ==
    /\ Done(1)
    /\ \E i, j, k \in CallsOf(1, TailStages) :
          /\ calls[1][i].stage = "sentiment_analysis"
          /\ calls[1][i].out.content = <<" ", "n", "e", "g", "a", "t", "i", "v", "e", "\n">>
          /\ calls[1][j].stage = "political_analysis"
          /\ calls[1][j].out.content = <<"m", "a", "y", "b", "e">>
          /\ calls[1][k].stage = "outrage_analysis"
          /\ ~calls[1][k].out.ok
    /\ state[1]["sentiment"] = <<"N", "E", "G", "A", "T", "I", "V", "E">>
    /\ state[1]["is_political"] = <<"N", "O">>
    /\ state[1]["is_outrage"] = <<"N", "O">>
\* the lines of the answer of the vision call of r
EntryLines(r) == StrSplit(EntryOut(r).content, "\n")

\* the lines of the answer that start with the prefix
LinesWith(r, prefix) ==
    { i \in 1..Len(EntryLines(r)) : StartsWith(EntryLines(r)[i], prefix) }

\* the rest of the line after the prefix, trimmed
RestOfLine(line, prefix) ==
    StrStrip(SubSeq(line, Len(prefix) + 1, Len(line)))

\* C33: when the answer of the vision call has a line starting with 'OCR:'
\* and a line starting with 'CONTENT_TYPE:', the stored text is the rest of
\* an 'OCR:' line after the prefix, trimmed, and the stored category is the
\* rest of a 'CONTENT_TYPE:' line after the prefix, trimmed.
C33_PrefixLinesParsed ==
    \A r \in Requests :
        (/\ EntryRan(r) /\ EntryOut(r).ok
         /\ LinesWith(r, <<"O", "C", "R", ":">>) # {}
         /\ LinesWith(r, <<"C", "O", "N", "T", "E", "N", "T", "_", "T", "Y", "P", "E", ":">>) # {})
            => /\ \E i \in LinesWith(r, <<"O", "C", "R", ":">>) :
                     state[r]["ocr_result"]
                         = RestOfLine(EntryLines(r)[i], <<"O", "C", "R", ":">>)
               /\ \E i \in LinesWith(r, <<"C", "O", "N", "T", "E", "N", "T", "_", "T", "Y", "P", "E", ":">>) :
                     state[r]["content_type"]
                         = RestOfLine(EntryLines(r)[i], <<"C", "O", "N", "T", "E", "N", "T", "_", "T", "Y", "P", "E", ":">>)
\* C34: a request whose file content type is missing or does not denote an
\* image is answered with status 400, and analyze_image is not called for it.
C34_NonImageAnswered400 ==
    \A r \in Requests :
        (/\ upload[r] # NoUpload
         /\ ~is_image(upload[r].content_type)
         /\ pc[r] = "responded")
            => /\ response[r].status = 400
               /\ trace[r] = <<>>
               /\ calls[r] = <<>>

\* C35: an exception that leaves analyze_image never escapes the handler:
\* the handler answers it, with status 403 when the error message carries
\* 'unsupported_country_region_territory' and with status 500 and the error
\* message as detail otherwise.
C35_FatalErrorMapped ==
    /\ [](\A r \in Requests :
            (upload[r] # NoUpload /\ exc[r] # <<>> /\ pc[r] = "responded")
                => IF Contains(exc[r], RegionMarker)
                   THEN response[r].status = 403
                   ELSE /\ response[r].status = 500
                        /\ response[r].detail = exc[r])
    /\ [][\A r \in Requests :
            (upload[r] # NoUpload /\ pc[r] = "raised")
                => /\ pc'[r] = "responded"
                   /\ response'[r].status \in {403, 500}]_vars

\* the vision call timed out, analyze_image raised, and the handler answered
\* 500 with the message
C35_Witness ==
    /\ pc[1] = "responded"
    /\ exc[1] = <<"R", "e", "q", "u", "e", "s", "t", " ", "t", "i", "m", "e", "d", " ", "o", "u", "t", ".">>
    /\ response[1].status = 500
    /\ response[1].detail = <<"R", "e", "q", "u", "e", "s", "t", " ", "t", "i", "m", "e", "d", " ", "o", "u", "t", ".">>

\* the vision call failed for the region, and the handler answered 403
C35_WitnessRegion ==
    /\ pc[1] = "responded"
    /\ Contains(exc[1], RegionMarker)
    /\ response[1].status = 403
\* the field each stage after the entry stage writes
OwnField ==
    [search |-> "search_results",
     meme_name_analysis |-> "meme_name",
     explain_humor_analysis |-> "explain_humor",
     social_media_detection |-> "social_media_platform",
     recognise_poster |-> "poster_name",
     sentiment_analysis |-> "sentiment",
     political_analysis |-> "is_political",
     outrage_analysis |-> "is_outrage"]

\* the two records hold the same fields with the same values, but for key
SameBut(a, b, key) ==
    /\ DOMAIN a = DOMAIN b
    /\ \A k \in DOMAIN a \ {key} : a[k] = b[k]

\* C36: a step of a stage after the entry stage, whether the stage skipped
\* or its call answered or failed, leaves every field of the record but the
\* stage's own as it was, and the record holds the stage's own field;
\* the result stage leaves the whole record as it was; so the extracted
\* text and the usage of the record stay those of the entry stage's output.
C36_StageWritesOwnFieldOnly ==
    /\ [][\A r \in Requests :
            /\ (pc[r] \in DOMAIN OwnField /\ trace'[r] # trace[r]) =>
                  /\ SameBut(state[r], state'[r], OwnField[pc[r]])
                  /\ OwnField[pc[r]] \in DOMAIN state'[r]
            /\ (pc[r] = "result" /\ trace'[r] # trace[r]) =>
                  state'[r] = state[r]]_vars
    /\ [](\A r \in Requests :
            (EntryRan(r) /\ state[r] # EmptyDict) =>
                \E usage \in EntryUsages :
                    LET entry == ocr_node(EmptyDict, EntryOut(r), usage).value
                    IN  /\ state[r]["ocr_result"] = entry["ocr_result"]
                        /\ state[r]["cb"] = entry["cb"])

\* a finished ARTICLE run: search and the three tail stages each wrote
\* their field, and the text and usage are those of the entry stage
C36_Witness ==
    /\ Done(1)
    /\ state[1]["content_type"] = ARTICLE
    /\ state[1]["ocr_result"] = <<"h", "i">>
    /\ state[1]["cb"] # ZeroUsage
    /\ Len(calls[1]) = 5
    /\ state[1]["search_results"] = <<"S", "e", "a", "r", "c", "h", " ", "f", "a", "i", "l", "e", "d", ":", " ", "r", "a", "t", "e", " ", "l", "i", "m", "i", "t">>
    /\ state[1]["sentiment"] = <<"P", "O", "S", "I", "T", "I", "V", "E">>
    /\ state[1]["meme_name"] = EMPTY
\* C37: in a run whose entry stage stored an empty or blank extracted text,
\* whatever the category, the vision call of the entry stage is the only
\* capability call, and no stage raises.
C37_EmptyTextOnlyEntryCall ==
    \A r \in Requests :
        (/\ EntryRan(r)
         /\ state[r] # EmptyDict
         /\ ~HasText(state[r]["ocr_result"]))
            => /\ Len(calls[r]) = 1
               /\ calls[r][1].stage = "ocr"
               /\ pc[r] # "raised"

\* a finished MEME run with empty text: both MEME stages and the three tail
\* stages ran and only the entry stage called
C37_Witness ==
    /\ Done(1)
    /\ state[1]["content_type"] = MEME
    /\ state[1]["ocr_result"] = EMPTY
    /\ trace[1] = <<"ocr", "meme_name_analysis", "explain_humor_analysis",
                    "sentiment_analysis", "political_analysis",
                    "outrage_analysis", "result">>
    /\ Len(calls[1]) = 1
\* the failure is a region or access-denial failure: its message carries the
\* region marker or reports HTTP status 403
AccessDenied(message) ==
    \/ Contains(message, RegionMarker)
    \/ StartsWith(message, <<"E", "r", "r", "o", "r", " ", "c", "o", "d", "e", ":", " ", "4", "0", "3">>)

\* the entry stage of r returned a record although its call failed
EntryContained(r) ==
    EntryRan(r) /\ ~EntryOut(r).ok /\ state[r] # EmptyDict

\* C38: the entry stage contains a failure of its call (returns the ERROR
\* record) exactly when the failure is a region or access-denial failure; a
\* failure of another kind, even one whose message holds the digits 403,
\* leaves the run as an exception.
C38_ContainsOnlyAccessDenial ==
    \A r \in Requests :
        (EntryRan(r) /\ ~EntryOut(r).ok) =>
            /\ EntryContained(r) <=> AccessDenied(EntryOut(r).msg)
            /\ ~AccessDenied(EntryOut(r).msg) =>
                  /\ pc[r] = "raised"
                  /\ exc[r] = EntryOut(r).msg
(***************************************************************************)
(* The entry stage and the search stage of a run on long texts: answers of *)
(* the vision call whose text is around the 100 and 200 character limits   *)
(* of the query, for the two categories that are searched.                 *)
(***************************************************************************)

\* the texts the vision call reads off long articles
LongTexts ==
    { <<"B", "u", "y", " ", "n", "o", "w", ".", " ", "T", "o", "d", "a", "y">>,
      Rep("a", 100),
      Rep("a", 101),
      <<"A", "b", "c", ".">> \o Rep("a", 97),
      <<".">> \o Rep("a", 150),
      Rep("a", 120) \o <<".">> \o Rep("b", 20),
      Rep("a", 200),
      Rep("a", 201),
      Rep("a", 199) \o <<" ", "b">>,
      Rep("a", 99) \o Rep(" ", 101) \o <<".", " ", "x">>,
      Rep("a", 210) \o <<".">> \o Rep("b", 39),
      <<" ", " ", "A", "b", "c", ".">> \o Rep("a", 200) \o <<" ", " ">> }

\* the answers of the vision call for those texts
LongResponses ==
    { <<"O", "C", "R", ":", " ">> \o text \o <<"\n", "C", "O", "N", "T", "E", "N", "T", "_", "T", "Y", "P", "E", ":", " ">> \o category :
        text \in LongTexts, category \in {ARTICLE, FACTS} }

\* the entry stage answered with a long text
ocr_long(r) ==
    /\ pc[r] = "ocr"
    /\ \E out \in Outcomes(LongResponses, {}), usage \in EntryUsages :
          /\ Step(r, "ocr", ocr_node(state[r], out, usage),
                  <<Call("ocr", image_data(r), out)>>)
          /\ Bill(r, out, usage)

SearchNext ==
    \E r \in Requests :
        \/ ocr_long(r)
        \/ search(r)

SpecSearch == Init /\ [][SearchNext]_vars

\* C39: the query of every call of the search capability in a run is not
\* empty, is at most 200 characters long, and is a prefix of the extracted
\* text of the record.
C39_QueryIsShortPrefix ==
    \A r \in Requests :
        \A i \in SearchCalls(r) :
            LET query == calls[r][i].arg
                text == state[r]["ocr_result"]
            IN  /\ query # <<>>
                /\ Len(query) <= 200
                /\ Len(query) <= Len(text)
                /\ SubSeq(text, 1, Len(query)) = query

\* the search ran on a text of 201 characters with a query of its first 200
C39_Witness ==
    /\ SearchCalls(1) # {}
    /\ Len(state[1]["ocr_result"]) = 201
    /\ \E i \in SearchCalls(1) : Len(calls[1][i].arg) = 200

\* the search ran with a query cut after the first period of a longer text
C39_WitnessCut ==
    /\ SearchCalls(1) # {}
    /\ state[1]["ocr_result"] = Rep("a", 120) \o <<".">> \o Rep("b", 20)
    /\ \E i \in SearchCalls(1) : Len(calls[1][i].arg) = 121

====
